---------------------------- MODULE Spec2Model ----------------------------
(***************************************************************************)
(* A model of the MindfulSpace wellness service: the Express handlers of   *)
(* src/unnamed/part_000 (the primary server, "A"), src/unnamed/part_001    *)
(* (the minimal auth server, "B") and the third server of src/server.js    *)
(* (lines 849-1405, "C"), all running against one PostgreSQL store whose   *)
(* schema is the one initDatabase creates.                                 *)
(*                                                                         *)
(* A handler that awaits several store calls is split at its awaits when   *)
(* the interleaving matters (register, signup, login, the mood upsert, C's *)
(* friend request); every other handler is one action.  Request bodies are *)
(* JSON, so a body field is a typed value (absent, string, number or       *)
(* boolean) and the JavaScript tests on it (!x, ===, .length) are modelled *)
(* on the typed value.  A session token is used on the server that issued  *)
(* it.                                                                     *)
(***************************************************************************)
EXTENDS Integers, Sequences, FiniteSets, TLC

VARIABLES
    users,          \* rows of table users
    userSeq,        \* next value of users_id_seq
    journal,        \* rows of table journal_entries
    journalSeq,     \* next value of journal_entries_id_seq
    moods,          \* rows of table mood_entries
    moodSeq,        \* next value of mood_entries_id_seq
    gratitude,      \* rows of table gratitude_entries
    gratitudeSeq,   \* next value of gratitude_entries_id_seq
    friends,        \* rows of table friend_requests
    friendSeq,      \* next value of friend_requests_id_seq
    support,        \* rows of table support_interactions
    supportSeq,     \* next value of support_interactions_id_seq
    tokens,         \* the session tokens issued so far, each with its time of issue
    now,            \* the server's clock, in milliseconds
    boot,           \* the server process: how far its start has come
    reqs            \* the requests being processed, one per slot

storeVars == <<users, userSeq, journal, journalSeq, moods, moodSeq,
               gratitude, gratitudeSeq, friends, friendSeq, support, supportSeq>>
vars == <<users, userSeq, journal, journalSeq, moods, moodSeq,
          gratitude, gratitudeSeq, friends, friendSeq, support, supportSeq,
          tokens, now, boot, reqs>>

-----------------------------------------------------------------------------
(* Bounds of the model *)

NSlots == 2          \* requests processed at the same time
MaxUserId == 3       \* users_id_seq is not advanced beyond this
MaxJournalId == 4    \* journal_entries_id_seq is not advanced beyond this
MaxMoodId == 7       \* mood_entries_id_seq is not advanced beyond this
MaxGratitudeId == 1  \* gratitude_entries_id_seq is not advanced beyond this
MaxSupportId == 2    \* support_interactions_id_seq is not advanced beyond this
MaxFriendId == 2     \* friend_requests_id_seq is not advanced beyond this

Slots == 1..NSlots

-----------------------------------------------------------------------------
(* JSON / JavaScript values of a request body, and SQL column values *)

Undefined == [t |-> "undefined", s |-> "", n |-> 0]
Null == [t |-> "null", s |-> "", n |-> 0]
Str(x) == [t |-> "string", s |-> x, n |-> 0]
Num(k) == [t |-> "number", s |-> "", n |-> k]
Bool(b) == [t |-> "boolean", s |-> "", n |-> IF b THEN 1 ELSE 0]

\* !v in JavaScript
Falsy(v) ==
    \/ v.t \in {"undefined", "null"}
    \/ v.t = "string" /\ v.s = ""
    \/ v.t = "number" /\ v.n = 0
    \/ v.t = "boolean" /\ v.n = 0

\* a === b in JavaScript: same type and same value, no conversion
StrictEq(a, b) == a.t = b.t /\ a.s = b.s /\ a.n = b.n

\* v.length < k in JavaScript: a number has no length, and undefined < k is false
LengthBelow(v, k) == v.t = "string" /\ Len(v.s) < k

\* node-postgres sends undefined and null as NULL, everything else as text
PgParam(v) == IF v.t \in {"undefined", "null"} THEN Null ELSE v

\* a || b in JavaScript
OrElse(a, b) == IF Falsy(a) THEN b ELSE a

RECURSIVE TrimStart(_)
TrimStart(x) ==
    IF x # "" /\ SubSeq(x, 1, 1) = " " THEN TrimStart(SubSeq(x, 2, Len(x))) ELSE x

RECURSIVE TrimEnd(_)
TrimEnd(x) ==
    IF x # "" /\ SubSeq(x, Len(x), Len(x)) = " "
    THEN TrimEnd(SubSeq(x, 1, Len(x) - 1))
    ELSE x

\* String.prototype.trim (spaces are the only white space of the model)
Trim(x) == TrimEnd(TrimStart(x))

Digits == "0123456789"

IsDigit(c) == \E d \in 1..Len(Digits) : SubSeq(Digits, d, d) = c

DigitValue(c) == (CHOOSE d \in 1..Len(Digits) : SubSeq(Digits, d, d) = c) - 1

RECURSIVE ParseDigits(_, _)
ParseDigits(x, acc) ==
    IF x = "" THEN acc
    ELSE IF ~IsDigit(SubSeq(x, 1, 1)) THEN -1
    ELSE ParseDigits(SubSeq(x, 2, Len(x)), acc * Len(Digits) + DigitValue(SubSeq(x, 1, 1)))

\* PostgreSQL reading a parameter as INTEGER: node-postgres sends a number as
\* its decimal text, and the text is parsed; -1 stands for error 22P02
\* (invalid input syntax).  Signs are not modelled.
PgInt(v) ==
    IF v.t = "number" THEN v.n
    ELSE IF v.t = "string" /\ Trim(v.s) # "" THEN ParseDigits(Trim(v.s), 0)
    ELSE -1

-----------------------------------------------------------------------------
(* Program constants *)

MinPasswordLength == 6
MsPerSecond == 1000
SecondsPerDay == 86400
DaysValidA == 7
DaysValidB == 1
SampleDaysSarah == 30
SampleDaysMichael == 15
SampleDaysEmma == 7

MsPerDay == SecondsPerDay * MsPerSecond

\* the calendar day of clock t, as a day number (day 0 is 1970-01-01)
Today(t) == t \div MsPerDay

\* a TIMESTAMP column value: the day and the millisecond of the day
Timestamp(t) == [day |-> Today(t), ms |-> t % MsPerDay]

\* NOW() - INTERVAL 'n days' at clock t
DaysBefore(t, n) == [day |-> Today(t) - n, ms |-> t % MsPerDay]

\* PostgreSQL reading a text parameter as DATE.  The model's calendar is
\* December 1969 and January 1970 written YYYY-MM-DD, optionally followed
\* by a time of day, which DATE drops; anything else is error 22007
\* (ok = FALSE).
PgDate(v) ==
    LET x == v.s
        dd == IF Len(x) >= 10 THEN ParseDigits(SubSeq(x, 9, 10), 0) ELSE -1
        wellFormed ==
            /\ v.t = "string" /\ Len(x) >= 10
            /\ dd >= 1 /\ dd <= 31
            /\ (Len(x) = 10 \/ SubSeq(x, 11, 11) \in {"T", " "})
    IN IF wellFormed /\ SubSeq(x, 1, 8) = "1970-01-"
       THEN [ok |-> TRUE, day |-> dd - 1]
       ELSE IF wellFormed /\ SubSeq(x, 1, 8) = "1969-12-"
       THEN [ok |-> TRUE, day |-> dd - 32]
       ELSE [ok |-> FALSE, day |-> 0]
\* the clock when the model starts: one and a half seconds, so mid-second
StartTime == MsPerSecond + MsPerSecond \div 2

-----------------------------------------------------------------------------
(* bcrypt.  The digest is a string that is never the input; the salt is    *)
(* left out, so the digest of one input is always the same string.  bcrypt *)
(* reads the first 72 bytes of its input and ignores the rest; the model's *)
(* passwords have one byte per character.                                  *)

BcryptMaxBytes == 72

BcryptDigestLeaky(s) == s

\* the part of the input bcrypt reads
BcryptInput(s) == IF Len(s) > BcryptMaxBytes THEN SubSeq(s, 1, BcryptMaxBytes) ELSE s

BcryptDigest(s) == "$2a$10$" \o BcryptInput(s)

\* bcryptjs (A, C): hash rejects (throws) unless the data is a string
BcryptjsHashThrows(pw) == pw.t # "string"

\* bcrypt (B): hash rejects when the data is missing
BcryptHashThrows(pw) == pw.t # "string"

\* compare rejects (throws) when the data is not a string
BcryptCompareThrows(pw) == pw.t # "string"

BcryptCompare(pw, digest) == pw.t = "string" /\ digest = Str(BcryptDigest(pw.s))

-----------------------------------------------------------------------------
(* Session tokens (jsonwebtoken) *)

NoToken == [kind |-> "none", key |-> "", variant |-> "", uid |-> 0,
            email |-> Null, iat |-> 0, exp |-> 0]
Garbage == [kind |-> "garbage", key |-> "", variant |-> "", uid |-> 0,
            email |-> Null, iat |-> 0, exp |-> 0]

\* Date.now() in whole seconds, as jsonwebtoken takes it
ClockSeconds(t) == t \div MsPerSecond

ValiditySeconds(variant) ==
    IF variant = "B" THEN DaysValidB * SecondsPerDay ELSE DaysValidA * SecondsPerDay

\* jwt.sign(payload, JWT_SECRET, { expiresIn })
JwtSign(variant, uid, email, t) ==
    [kind |-> "jwt", key |-> "JWT_SECRET", variant |-> variant, uid |-> uid,
     email |-> email, iat |-> ClockSeconds(t),
     exp |-> ClockSeconds(t) + ValiditySeconds(variant)]

\* the same token signed by someone who does not hold JWT_SECRET
Forged(tok) == [tok EXCEPT !.key = "other"]

\* jwt.verify(token, JWT_SECRET): "ok" or the error it reports
JwtVerifyLate(tok, t) ==
    IF tok.kind # "jwt" THEN "malformed"
    ELSE IF tok.key # "JWT_SECRET" THEN "signature"
    ELSE IF ClockSeconds(t) > tok.exp THEN "expired"
    ELSE "ok"

JwtVerify(tok, t) ==
    IF tok.kind # "jwt" THEN "malformed"
    ELSE IF tok.key # "JWT_SECRET" THEN "signature"
    ELSE IF ClockSeconds(t) >= tok.exp THEN "expired"
    ELSE "ok"

-----------------------------------------------------------------------------
(* Responses.  cols is the set of fields of the user object (or of each    *)
(* row) that the body carries.                                             *)

NoResp == [status |-> 0, error |-> "", cols |-> {}, token |-> NoToken, uid |-> 0]

Reply(status, error) ==
    [status |-> status, error |-> error, cols |-> {}, token |-> NoToken, uid |-> 0]

ReplyUser(status, cols, token, uid) ==
    [status |-> status, error |-> "", cols |-> cols, token |-> token, uid |-> uid]

-----------------------------------------------------------------------------
(* Table users (CREATE TABLE users) *)

NoRow == [id |-> 0, email |-> Null, password |-> Null, name |-> Null, age |-> Null,
          gender |-> Null, bio |-> Null, profile_complete |-> FALSE,
          join_date |-> [day |-> 0, ms |-> 0]]

UserColumns == {"id", "email", "password", "name", "age", "gender", "bio",
                "profile_complete", "join_date", "created_at", "updated_at"}

\* SELECT ... FROM users WHERE email = $1 (nothing equals NULL)
UsersByEmail(e) == {u \in users : e.t # "null" /\ u.email = e}

\* SELECT ... FROM users WHERE id = $1
UsersById(id) == {u \in users : u.id = id}

UniqueEmailViolatedNever(tbl, id, e) == FALSE

\* email VARCHAR(255) UNIQUE: a row other than `id` already holds e
UniqueEmailViolated(tbl, id, e) == \E u \in tbl : u.id # id /\ u.email = e

\* email VARCHAR(255) NOT NULL, password VARCHAR(255) NOT NULL
NotNullViolated(v) == v.t = "null"

-----------------------------------------------------------------------------
(* Requests in progress *)

NoHeader == [parts |-> 0, token |-> NoToken]
SchemeOnly == [parts |-> 1, token |-> NoToken]
Bearer(tok) == [parts |-> 2, token |-> tok]

\* the body of the answer of GET /api/stats
\* the body of GET /api/stats of server C
NoCounts == [totalUsers |-> 0, friendRequests |-> 0, connections |-> 0, journalEntries |-> 0]

NoStats == [journalCount |-> 0, moodCount |-> 0, gratitudeCount |-> 0, daysActive |-> 0]

IdleSlot ==
    [op |-> "none", pc |-> "idle", email |-> Undefined, password |-> Undefined,
     name |-> Undefined, row |-> NoRow, hashed |-> "", thrown |-> "",
     target |-> Undefined, content |-> Undefined, mood |-> Undefined,
     emoji |-> Undefined, date |-> Undefined, status |-> Undefined,
     age |-> Undefined, gender |-> Undefined, entry |-> Undefined, rows |-> <<>>,
     isPublic |-> Undefined,
     stats |-> NoStats, counts |-> NoCounts,
     found |-> FALSE, hdr |-> NoHeader, at |-> 0, auth |-> "", user |-> 0,
     touched |-> FALSE, raced |-> FALSE, sent |-> 0, resp |-> NoResp]

\* the process after its start: the port is open (app.listen), the
\* connection test of pool.connect has answered, initDatabase has finished
Booted == [listening |-> TRUE, connect |-> "ok", init |-> "done", exited |-> FALSE]

\* the server takes requests: the port is open and the process has not exited
Serving == boot.listening /\ ~boot.exited

\* slot r can take a new request
Free(r) == Serving /\ reqs[r].pc \in {"idle", "done"}

\* History: a registration for email e has just succeeded; every other
\* registration for e that is being processed is marked as having raced it.
MarkRaced(s, e) ==
    IF s.op \in {"registerA", "signupB"} /\ s.pc \in {"hash", "insert"}
          /\ PgParam(s.email) = e
    THEN [s EXCEPT !.raced = TRUE]
    ELSE s

NewRequest(op, email, password, name) ==
    [IdleSlot EXCEPT !.op = op, !.email = email, !.password = password, !.name = name,
                     !.at = now]

\* the response is sent: what the handler held (the row, the digest) is dropped
Done(s, resp) ==
    [s EXCEPT !.pc = "done", !.resp = resp, !.row = NoRow, !.hashed = "",
              !.sent = @ + 1]

\* a catch block that would log the error and send nothing
ThrownSilent(s, code, resp) ==
    [s EXCEPT !.thrown = code, !.row = NoRow, !.hashed = ""]

\* the handler's catch block sends the response
Thrown(s, code, resp) ==
    [s EXCEPT !.pc = "done", !.thrown = code, !.resp = resp, !.row = NoRow,
              !.hashed = "", !.sent = @ + 1]

-----------------------------------------------------------------------------
(* Access control middleware *)

\* authHeader && authHeader.split(" ")[1]
HeaderToken(hdr) == IF hdr.parts >= 2 THEN hdr.token ELSE NoToken

AuthenticateTokenAOpen(hdr, t) ==
    [next |-> TRUE, user |-> HeaderToken(hdr), resp |-> NoResp]

\* authenticateToken of servers A (part_000) and the first server of server.js
AuthenticateTokenA(hdr, t) ==
    LET token == HeaderToken(hdr) IN
    IF token.kind = "none"
    THEN [next |-> FALSE, user |-> NoToken, resp |-> Reply(401, "Access token required")]
    ELSE IF JwtVerify(token, t) # "ok"
    THEN [next |-> FALSE, user |-> NoToken, resp |-> Reply(403, "Invalid or expired token")]
    ELSE [next |-> TRUE, user |-> token, resp |-> NoResp]

\* authenticateToken of server B (part_001): res.sendStatus
AuthenticateTokenB(hdr, t) ==
    LET token == HeaderToken(hdr) IN
    IF token.kind = "none"
    THEN [next |-> FALSE, user |-> NoToken, resp |-> Reply(401, "Unauthorized")]
    ELSE IF JwtVerify(token, t) # "ok"
    THEN [next |-> FALSE, user |-> NoToken, resp |-> Reply(403, "Forbidden")]
    ELSE [next |-> TRUE, user |-> token, resp |-> NoResp]

\* authenticateToken of server C (server.js:874): verify, then load the user
AuthenticateTokenC(hdr, t) ==
    LET token == HeaderToken(hdr) IN
    IF token.kind = "none"
    THEN [next |-> FALSE, user |-> NoToken, resp |-> Reply(401, "Access token required")]
    ELSE IF JwtVerify(token, t) # "ok"
    THEN [next |-> FALSE, user |-> NoToken, resp |-> Reply(403, "Invalid token")]
    ELSE IF UsersById(token.uid) = {}
    THEN [next |-> FALSE, user |-> NoToken, resp |-> Reply(401, "Invalid token")]
    ELSE [next |-> TRUE, user |-> token, resp |-> NoResp]

\* the slot of a request the middleware answered itself
Refused(op, hdr, auth) ==
    [IdleSlot EXCEPT !.op = op, !.pc = "done", !.hdr = hdr, !.at = now,
                     !.auth = "refused", !.sent = 1, !.resp = auth.resp]

\* the slot of a request the middleware passed on, with req.user set; its
\* handler goes on to query the store
Passed(op, hdr, auth) ==
    [IdleSlot EXCEPT !.op = op, !.hdr = hdr, !.at = now, !.auth = "next",
                     !.user = auth.user.uid, !.touched = TRUE]

-----------------------------------------------------------------------------
(* Server A: POST /api/register *)

RegisterAUserFields == {"id", "email", "name", "profileComplete", "joinDate"}

\* catch (error) { res.status(500).json({ error: "Internal server error" }) }
RegisterACatch(code) == Reply(500, "Internal server error")

\* the checks on the body, then SELECT id FROM users WHERE email = $1
RegisterAQuery(r, email, password, name) ==
    /\ Free(r)
    /\ LET s == NewRequest("registerA", email, password, name) IN
       reqs' = [reqs EXCEPT ![r] =
           IF Falsy(email) \/ Falsy(password)
           THEN Done(s, Reply(400, "Email and password are required"))
           ELSE IF LengthBelow(password, MinPasswordLength)
           THEN Done(s, Reply(400, "Password must be at least 6 characters long"))
           ELSE IF UsersByEmail(PgParam(email)) # {}
           THEN Done(s, Reply(400, "User already exists with this email"))
           ELSE [s EXCEPT !.pc = "hash"]]
    /\ UNCHANGED <<storeVars, tokens, now, boot>>

\* await bcrypt.hash(password, 10)
RegisterAHash(r) ==
    /\ reqs[r].op = "registerA" /\ reqs[r].pc = "hash"
    /\ LET s == reqs[r] IN
       reqs' = [reqs EXCEPT ![r] =
           IF BcryptjsHashThrows(s.password)
           THEN Thrown(s, "bcrypt", RegisterACatch("bcrypt"))
           ELSE [s EXCEPT !.pc = "insert", !.hashed = BcryptDigest(s.password.s)]]
    /\ UNCHANGED <<storeVars, tokens, now, boot>>

\* INSERT INTO users (email, password, name, join_date) ... RETURNING, jwt.sign, 201
RegisterAInsert(r) ==
    /\ reqs[r].op = "registerA" /\ reqs[r].pc = "insert"
    /\ userSeq <= MaxUserId
    /\ LET s == reqs[r]
           id == userSeq
           row == [NoRow EXCEPT !.id = id, !.email = PgParam(s.email),
                                !.password = Str(s.hashed),
                                !.name = IF Falsy(s.name) THEN Str("") ELSE s.name,
                                !.join_date = Timestamp(now)]
           token == JwtSign("A", id, row.email, now)
       IN /\ userSeq' = userSeq + 1
          /\ IF UniqueEmailViolated(users, id, row.email)
             THEN /\ reqs' = [reqs EXCEPT ![r] = Thrown(s, "23505", RegisterACatch("23505"))]
                  /\ UNCHANGED <<users, tokens>>
             ELSE /\ users' = users \cup {row}
                  /\ tokens' = tokens \cup {[tok |-> token, at |-> now]}
                  /\ reqs' = [q \in DOMAIN reqs |->
                         IF q = r
                         THEN Done(s, ReplyUser(201, RegisterAUserFields, token, id))
                         ELSE MarkRaced(reqs[q], row.email)]
    /\ UNCHANGED <<journal, journalSeq, moods, moodSeq, gratitude, gratitudeSeq,
                   friends, friendSeq, now,
                   support, supportSeq, boot>>

-----------------------------------------------------------------------------
(* Server A: POST /api/login *)

LoginAUserFields ==
    {"id", "email", "name", "age", "gender", "bio", "profileComplete", "joinDate"}

\* the checks on the body, then SELECT * FROM users WHERE email = $1
LoginAQuery(r, email, password) ==
    /\ Free(r)
    /\ LET s == NewRequest("loginA", email, password, Undefined)
           rows == UsersByEmail(PgParam(email))
       IN reqs' = [reqs EXCEPT ![r] =
           IF Falsy(email) \/ Falsy(password)
           THEN Done(s, Reply(400, "Email and password are required"))
           ELSE IF rows = {}
           THEN Done(s, Reply(401, "Invalid email or password"))
           ELSE [s EXCEPT !.pc = "compare", !.found = TRUE,
                          !.row = CHOOSE u \in rows : TRUE]]
    /\ UNCHANGED <<storeVars, tokens, now, boot>>

\* await bcrypt.compare(password, user.password), jwt.sign, 200
LoginACompare(r) ==
    /\ reqs[r].op = "loginA" /\ reqs[r].pc = "compare"
    /\ LET s == reqs[r]
           token == JwtSign("A", s.row.id, s.row.email, now)
       IN IF BcryptCompareThrows(s.password)
          THEN /\ reqs' = [reqs EXCEPT ![r] =
                      Thrown(s, "bcrypt", Reply(500, "Internal server error"))]
               /\ UNCHANGED tokens
          ELSE IF ~BcryptCompare(s.password, s.row.password)
          THEN /\ reqs' = [reqs EXCEPT ![r] =
                      Done(s, Reply(401, "Invalid email or password"))]
               /\ UNCHANGED tokens
          ELSE /\ reqs' = [reqs EXCEPT ![r] =
                      Done(s, ReplyUser(200, LoginAUserFields, token, s.row.id))]
               /\ tokens' = tokens \cup {[tok |-> token, at |-> now]}
    /\ UNCHANGED <<storeVars, now, boot>>

-----------------------------------------------------------------------------
(* Server B (part_001): POST /signup, POST /login, PUT /profile *)

\* SELECT * FROM users WHERE email = $1; the body is not checked
SignupBQuery(r, email, password, name) ==
    /\ Free(r)
    /\ LET s == NewRequest("signupB", email, password, name) IN
       reqs' = [reqs EXCEPT ![r] =
           IF UsersByEmail(PgParam(email)) # {}
           THEN Done(s, Reply(400, "Email already in use"))
           ELSE [s EXCEPT !.pc = "hash"]]
    /\ UNCHANGED <<storeVars, tokens, now, boot>>

\* await bcrypt.hash(password, 10)
SignupBHash(r) ==
    /\ reqs[r].op = "signupB" /\ reqs[r].pc = "hash"
    /\ LET s == reqs[r] IN
       reqs' = [reqs EXCEPT ![r] =
           IF BcryptHashThrows(s.password)
           THEN Thrown(s, "bcrypt", Reply(500, "Server error during signup"))
           ELSE [s EXCEPT !.pc = "insert", !.hashed = BcryptDigest(s.password.s)]]
    /\ UNCHANGED <<storeVars, tokens, now, boot>>

\* INSERT INTO users (name, email, password), 201
SignupBInsert(r) ==
    /\ reqs[r].op = "signupB" /\ reqs[r].pc = "insert"
    /\ userSeq <= MaxUserId
    /\ LET s == reqs[r]
           id == userSeq
           row == [NoRow EXCEPT !.id = id, !.email = PgParam(s.email),
                                !.password = Str(s.hashed),
                                !.name = PgParam(s.name), !.join_date = Timestamp(now)]
       IN /\ userSeq' = userSeq + 1
          /\ IF NotNullViolated(row.email)
             THEN /\ reqs' = [reqs EXCEPT ![r] =
                         Thrown(s, "23502", Reply(500, "Server error during signup"))]
                  /\ UNCHANGED users
             ELSE IF UniqueEmailViolated(users, id, row.email)
             THEN /\ reqs' = [reqs EXCEPT ![r] =
                         Thrown(s, "23505", Reply(500, "Server error during signup"))]
                  /\ UNCHANGED users
             ELSE /\ users' = users \cup {row}
                  /\ reqs' = [q \in DOMAIN reqs |->
                         IF q = r THEN Done(s, ReplyUser(201, {}, NoToken, id))
                         ELSE MarkRaced(reqs[q], row.email)]
    /\ UNCHANGED <<journal, journalSeq, moods, moodSeq, gratitude, gratitudeSeq,
                   friends, friendSeq, tokens, now,
                   support, supportSeq, boot>>

LoginBUserFields == {"id", "name", "email"}

\* SELECT * FROM users WHERE email = $1
LoginBQuery(r, email, password) ==
    /\ Free(r)
    /\ LET s == NewRequest("loginB", email, password, Undefined)
           rows == UsersByEmail(PgParam(email))
       IN reqs' = [reqs EXCEPT ![r] =
           IF rows = {}
           THEN Done(s, Reply(400, "Invalid credentials"))
           ELSE [s EXCEPT !.pc = "compare", !.found = TRUE,
                          !.row = CHOOSE u \in rows : TRUE]]
    /\ UNCHANGED <<storeVars, tokens, now, boot>>

\* await bcrypt.compare(password, user.password), jwt.sign, 200
LoginBCompare(r) ==
    /\ reqs[r].op = "loginB" /\ reqs[r].pc = "compare"
    /\ LET s == reqs[r]
           token == JwtSign("B", s.row.id, s.row.email, now)
       IN IF BcryptCompareThrows(s.password)
          THEN /\ reqs' = [reqs EXCEPT ![r] =
                      Thrown(s, "bcrypt", Reply(500, "Server error during login"))]
               /\ UNCHANGED tokens
          ELSE IF ~BcryptCompare(s.password, s.row.password)
          THEN /\ reqs' = [reqs EXCEPT ![r] = Done(s, Reply(400, "Invalid credentials"))]
               /\ UNCHANGED tokens
          ELSE /\ reqs' = [reqs EXCEPT ![r] =
                      Done(s, ReplyUser(200, LoginBUserFields, token, s.row.id))]
               /\ tokens' = tokens \cup {[tok |-> token, at |-> now]}
    /\ UNCHANGED <<storeVars, now, boot>>

\* UPDATE users SET name = $1, email = $2 WHERE id = $3
ProfilePutB(r, h, name, email) ==
    /\ Free(r)
    /\ LET auth == AuthenticateTokenB(h, now)
           s == [Passed("profilePutB", h, auth) EXCEPT !.email = email, !.name = name]
           hit == UsersById(auth.user.uid)
           e == PgParam(email)
       IN IF ~auth.next
          THEN /\ reqs' = [reqs EXCEPT ![r] = Refused("profilePutB", h, auth)]
               /\ UNCHANGED users
          ELSE IF hit # {} /\ NotNullViolated(e)
          THEN /\ reqs' = [reqs EXCEPT ![r] =
                      Thrown(s, "23502", Reply(500, "Server error updating profile"))]
               /\ UNCHANGED users
          ELSE IF hit # {} /\ UniqueEmailViolated(users, auth.user.uid, e)
          THEN /\ reqs' = [reqs EXCEPT ![r] =
                      Thrown(s, "23505", Reply(500, "Server error updating profile"))]
               /\ UNCHANGED users
          ELSE /\ users' = {IF u \in hit
                            THEN [u EXCEPT !.name = PgParam(name), !.email = e]
                            ELSE u : u \in users}
               /\ reqs' = [reqs EXCEPT ![r] =
                      Done(s, ReplyUser(200, {}, NoToken, auth.user.uid))]
    /\ UNCHANGED <<userSeq, journal, journalSeq, moods, moodSeq, gratitude,
                   gratitudeSeq, friends, friendSeq, tokens, now,
                   support, supportSeq, boot>>

-----------------------------------------------------------------------------
(* Server A: GET /api/profile, PUT /api/profile, GET /api/users *)

ProfileFields ==
    {"id", "email", "name", "age", "gender", "bio", "profile_complete", "join_date"}

UsersListFields == {"id", "name", "age", "gender", "bio", "join_date"}

\* SELECT id, email, name, ... FROM users WHERE id = $1
ProfileGetA(r, h) ==
    /\ Free(r)
    /\ LET auth == AuthenticateTokenA(h, now)
           s == Passed("profileGetA", h, auth)
       IN reqs' = [reqs EXCEPT ![r] =
           IF ~auth.next THEN Refused("profileGetA", h, auth)
           ELSE IF UsersById(auth.user.uid) = {}
           THEN Done(s, Reply(404, "User not found"))
           ELSE Done(s, ReplyUser(200, ProfileFields, NoToken, auth.user.uid))]
    /\ UNCHANGED <<storeVars, tokens, now, boot>>

\* UPDATE users SET name, age, gender, bio, profile_complete = true WHERE id = $5
ProfilePutA(r, h, name, age, gender, bio) ==
    /\ Free(r)
    /\ LET auth == AuthenticateTokenA(h, now)
           s == [Passed("profilePutA", h, auth) EXCEPT
                    !.name = name, !.age = age, !.gender = gender]
           hit == UsersById(auth.user.uid)
       IN IF ~auth.next
          THEN /\ reqs' = [reqs EXCEPT ![r] = Refused("profilePutA", h, auth)]
               /\ UNCHANGED users
          ELSE IF Falsy(name) \/ Falsy(age) \/ Falsy(gender)
          THEN /\ reqs' = [reqs EXCEPT ![r] =
                      Done([s EXCEPT !.touched = FALSE],
                           Reply(400, "Name, age, and gender are required"))]
               /\ UNCHANGED users
          ELSE IF hit = {}
          THEN /\ reqs' = [reqs EXCEPT ![r] = Done(s, Reply(404, "User not found"))]
               /\ UNCHANGED users
          ELSE /\ users' = {IF u \in hit
                            THEN [u EXCEPT !.name = name, !.age = age, !.gender = gender,
                                           !.bio = IF Falsy(bio) THEN Str("") ELSE bio,
                                           !.profile_complete = TRUE]
                            ELSE u : u \in users}
               /\ reqs' = [reqs EXCEPT ![r] =
                      Done(s, ReplyUser(200, ProfileFields, NoToken, auth.user.uid))]
    /\ UNCHANGED <<userSeq, journal, journalSeq, moods, moodSeq, gratitude,
                   gratitudeSeq, friends, friendSeq, tokens, now,
                   support, supportSeq, boot>>

\* SELECT id, name, age, gender, bio, join_date FROM users
\* WHERE id != $1 AND profile_complete = true
UsersListA(r, h) ==
    /\ Free(r)
    /\ LET auth == AuthenticateTokenA(h, now)
           s == Passed("usersListA", h, auth)
       IN reqs' = [reqs EXCEPT ![r] =
           IF ~auth.next THEN Refused("usersListA", h, auth)
           ELSE Done(s, ReplyUser(200, UsersListFields, NoToken, auth.user.uid))]
    /\ UNCHANGED <<storeVars, tokens, now, boot>>

-----------------------------------------------------------------------------
(* The accounts specification: registration, login and the profile routes  *)
(* on a store that starts empty (production: no sample data).              *)

EmptyStore ==
    /\ users = {} /\ userSeq = 1
    /\ journal = {} /\ journalSeq = 1
    /\ moods = {} /\ moodSeq = 1
    /\ gratitude = {} /\ gratitudeSeq = 1
    /\ friends = {} /\ friendSeq = 1
    /\ support = {} /\ supportSeq = 1

\* requests are processed concurrently, NSlots at a time
InitEmpty ==
    /\ EmptyStore
    /\ tokens = {}
    /\ now = StartTime
    /\ boot = Booted
    /\ reqs = [r \in Slots |-> IdleSlot]

\* requests are processed one after the other
InitEmptySerial ==
    /\ EmptyStore
    /\ tokens = {}
    /\ now = StartTime
    /\ boot = Booted
    /\ reqs = [r \in {1} |-> IdleSlot]

\* the tokens server `variant` has issued
Issued(variant) == {i.tok : i \in {k \in tokens : k.tok.variant = variant}}

\* what a client of server `variant` may put in the Authorization header
Headers(variant) ==
    {NoHeader, SchemeOnly, Bearer(Garbage)}
        \cup {Bearer(t) : t \in Issued(variant)}
        \cup {Bearer(Forged(t)) : t \in Issued(variant)}

\* the header of a client that is logged in to server `variant`
Sessions(variant) == {Bearer(t) : t \in Issued(variant)}

EmailA == Str("a@x.com")
EmailB == Str("b@x.com")
GoodPassword == Str("secret1")

(* Registration on servers A and B racing with each other and with B's     *)
(* profile update, which rewrites the email column.                        *)
NextRegister ==
    \E r \in DOMAIN reqs :
        \/ \E e \in {EmailA, EmailB} : RegisterAQuery(r, e, GoodPassword, Undefined)
        \/ RegisterAHash(r)
        \/ RegisterAInsert(r)
        \/ \E e \in {EmailA, EmailB} : SignupBQuery(r, e, GoodPassword, Undefined)
        \/ SignupBHash(r)
        \/ SignupBInsert(r)
        \/ \E e \in {EmailA, EmailB} : LoginBQuery(r, e, GoodPassword)
        \/ LoginBCompare(r)
        \/ \E h \in Sessions("B") \cup {NoHeader}, e \in {EmailA, EmailB} :
               ProfilePutB(r, h, Undefined, e)

SpecRegister == InitEmpty /\ [][NextRegister]_vars

-----------------------------------------------------------------------------
(* Claims about registration *)

Registration(s) == s.op \in {"registerA", "signupB"}

\* a register body that passes the checks of POST /api/register
ValidRegisterBody(s) ==
    /\ ~Falsy(s.email) /\ ~Falsy(s.password)
    /\ s.password.t = "string" /\ ~LengthBelow(s.password, MinPasswordLength)

\* C1: a register request of server A with a valid body that does not create
\* the user (another request took its email, before or while it was processed)
\* is answered 400 "User already exists with this email", never 500.
C1_LoserGetsConflict ==
    \A r \in DOMAIN reqs :
        (reqs[r].op = "registerA" /\ reqs[r].pc = "done" /\ ValidRegisterBody(reqs[r])
            /\ reqs[r].resp.status # 201)
        => reqs[r].resp = Reply(400, "User already exists with this email")

EmailUnique == \A u, v \in users : (u.email = v.email \/ u.id = v.id) => u = v

\* the step in which the registration of slot r is answered 201
Registered(r) ==
    /\ Registration(reqs[r]) /\ reqs[r].pc = "insert"
    /\ reqs'[r].pc = "done" /\ reqs'[r].resp.status = 201

\* C2 as stated: no two user records share an email, and a registration that
\* was being processed while another one for the same email succeeded is never
\* answered 201.
C2_AtMostOneSuccess ==
    /\ EmailUnique
    /\ \A r \in DOMAIN reqs :
           (Registration(reqs[r]) /\ reqs[r].raced) => reqs[r].resp.status # 201

\* C2 amended: no two user records share an email, and a registration is
\* answered 201 only in a step that finds no record with its email and leaves
\* exactly one.
C2_EmailUnique ==
    /\ []EmailUnique
    /\ [][\A r \in DOMAIN reqs :
            Registered(r) =>
                /\ UsersByEmail(PgParam(reqs[r].email)) = {}
                /\ Cardinality({u \in users' : u.email = PgParam(reqs[r].email)}) = 1]_vars

\* two registrations for one email were processed together; one created the
\* user and the store refused the other
C2_Witness ==
    \E r, q \in DOMAIN reqs :
        /\ r # q /\ Registration(reqs[r]) /\ Registration(reqs[q])
        /\ reqs[r].pc = "done" /\ reqs[q].pc = "done"
        /\ reqs[r].email = reqs[q].email
        /\ reqs[r].resp.status = 201
        /\ reqs[q].raced /\ reqs[q].thrown = "23505"
        /\ Cardinality(users) = 2

-----------------------------------------------------------------------------
(* The login specification: one account is registered on server A; logins  *)
(* on A and B with known and unknown emails and with right, wrong, missing *)
(* and non-string passwords; the profile routes of A.                      *)

LoginPasswords == {Undefined, Str("abc"), GoodPassword, Num(123456)}

NextLogin ==
    \E r \in DOMAIN reqs :
        \/ \E n \in {Undefined, Str("Ann")} : RegisterAQuery(r, EmailA, GoodPassword, n)
        \/ RegisterAHash(r)
        \/ RegisterAInsert(r)
        \/ \E e \in {EmailA, EmailB}, p \in LoginPasswords : LoginAQuery(r, e, p)
        \/ LoginACompare(r)
        \/ \E e \in {EmailA, EmailB}, p \in LoginPasswords : LoginBQuery(r, e, p)
        \/ LoginBCompare(r)
        \/ \E h \in Headers("A") : ProfileGetA(r, h)
        \/ \E h \in Headers("A"), n \in {Undefined, Str("Ann")} :
               ProfilePutA(r, h, n, Num(30), Str("female"), Undefined)
        \/ \E h \in Headers("A") : UsersListA(r, h)

SpecLogin == InitEmpty /\ [][NextLogin]_vars

\* the same requests, one after the other
SpecLoginSerial == InitEmptySerial /\ [][NextLogin]_vars

\* C3: the password column of the row a registration created holds the digest
\* of the submitted password and not the password itself, and no response
\* body carries the password column.
C3_PasswordNeverExposed ==
    /\ \A r \in DOMAIN reqs :
           (reqs[r].op = "registerA" /\ reqs[r].pc = "done" /\ reqs[r].resp.status = 201)
           => \A u \in UsersById(reqs[r].resp.uid) :
                  /\ u.password # reqs[r].password
                  /\ BcryptCompare(reqs[r].password, u.password)
    /\ \A u \in users : u.password \notin LoginPasswords
    /\ \A r \in DOMAIN reqs : "password" \notin reqs[r].resp.cols

\* a user has registered and then logged in with the registered password;
\* the login response carries the user object
C3_Witness ==
    \E r \in DOMAIN reqs : \E u \in users :
        /\ reqs[r].op = "loginA" /\ reqs[r].pc = "done" /\ reqs[r].resp.status = 200
        /\ reqs[r].resp.cols # {}
        /\ u.id = reqs[r].resp.uid /\ u.email = reqs[r].email
        /\ BcryptCompare(reqs[r].password, u.password)

Login(s) == s.op \in {"loginA", "loginB"} /\ s.pc = "done"

\* C4: on one server, a login whose email is not registered and a login whose
\* email is registered but whose password is not the account's get the same
\* response (here for the same submitted password).
C4_SameFailure ==
    \A r, q \in DOMAIN reqs :
        (/\ Login(reqs[r]) /\ Login(reqs[q]) /\ reqs[r].op = reqs[q].op
         /\ reqs[r].password = reqs[q].password
         /\ ~reqs[r].found /\ reqs[q].found /\ reqs[q].resp.status # 200)
        => reqs[r].resp = reqs[q].resp

-----------------------------------------------------------------------------
(* Server C (server.js:849-1405): POST /api/login, GET /api/user/profile *)

LoginCUserFields == {"id", "name", "email", "age", "gender", "bio", "profileComplete"}

ProfileCFields ==
    {"id", "name", "email", "age", "gender", "bio", "profile_complete", "created_at"}

\* the checks on the body, then SELECT * FROM users WHERE email = $1
LoginCQuery(r, email, password) ==
    /\ Free(r)
    /\ LET s == NewRequest("loginC", email, password, Undefined)
           rows == UsersByEmail(PgParam(email))
       IN reqs' = [reqs EXCEPT ![r] =
           IF Falsy(email) \/ Falsy(password)
           THEN Done(s, Reply(400, "Email and password are required"))
           ELSE IF rows = {}
           THEN Done(s, Reply(401, "Invalid credentials"))
           ELSE [s EXCEPT !.pc = "compare", !.found = TRUE,
                          !.row = CHOOSE u \in rows : TRUE]]
    /\ UNCHANGED <<storeVars, tokens, now, boot>>

\* await bcrypt.compare(password, user.password), generateToken(user.id), 200
LoginCCompare(r) ==
    /\ reqs[r].op = "loginC" /\ reqs[r].pc = "compare"
    /\ LET s == reqs[r]
           token == JwtSign("C", s.row.id, Null, now)
       IN IF BcryptCompareThrows(s.password)
          THEN /\ reqs' = [reqs EXCEPT ![r] =
                      Thrown(s, "bcrypt", Reply(500, "Internal server error"))]
               /\ UNCHANGED tokens
          ELSE IF ~BcryptCompare(s.password, s.row.password)
          THEN /\ reqs' = [reqs EXCEPT ![r] = Done(s, Reply(401, "Invalid credentials"))]
               /\ UNCHANGED tokens
          ELSE /\ reqs' = [reqs EXCEPT ![r] =
                      Done(s, ReplyUser(200, LoginCUserFields, token, s.row.id))]
               /\ tokens' = tokens \cup {[tok |-> token, at |-> now]}
    /\ UNCHANGED <<storeVars, now, boot>>

\* SELECT id, name, email, ... FROM users WHERE id = $1; res.json(rows[0])
ProfileGetC(r, h) ==
    /\ Free(r)
    /\ LET auth == AuthenticateTokenC(h, now)
           s == Passed("profileGetC", h, auth)
       IN reqs' = [reqs EXCEPT ![r] =
           IF ~auth.next THEN Refused("profileGetC", h, auth)
           ELSE Done(s, ReplyUser(200, ProfileCFields, NoToken, auth.user.uid))]
    /\ UNCHANGED <<storeVars, tokens, now, boot>>

-----------------------------------------------------------------------------
(* The token specification: one account, tokens issued by register and     *)
(* login on A and by login on C, a clock that moves to the instants around *)
(* the end of the first token's seven days, and protected routes of A and  *)
(* C called with no header, a scheme without a token, a malformed token, a *)
(* token signed with another key, and the issued tokens.                   *)

ValidMs == DaysValidA * SecondsPerDay * MsPerSecond

\* the last millisecond of the last whole second in which a token issued at
\* StartTime is valid, the first millisecond of the next second, and StartTime
\* plus seven days
TimePoints ==
    {ClockSeconds(StartTime) * MsPerSecond + ValidMs - 1,
     ClockSeconds(StartTime) * MsPerSecond + ValidMs,
     StartTime + ValidMs}

\* time passes
Advance(t) ==
    /\ t > now
    /\ now' = t
    /\ UNCHANGED <<storeVars, tokens, reqs, boot>>

NextTokens ==
    \/ \E t \in TimePoints : Advance(t)
    \/ \E r \in DOMAIN reqs :
        \/ RegisterAQuery(r, EmailA, GoodPassword, Str("Ann"))
        \/ RegisterAHash(r)
        \/ RegisterAInsert(r)
        \/ LoginAQuery(r, EmailA, GoodPassword)
        \/ LoginACompare(r)
        \/ LoginCQuery(r, EmailA, GoodPassword)
        \/ LoginCCompare(r)
        \/ \E h \in Headers("A") : ProfileGetA(r, h)
        \/ \E h \in Headers("A"), n \in {Undefined, Str("Ann")} :
               ProfilePutA(r, h, n, Num(30), Str("female"), Undefined)
        \/ \E h \in Headers("C") : ProfileGetC(r, h)

SpecTokens == InitEmptySerial /\ [][NextTokens]_vars

-----------------------------------------------------------------------------
(* Server A: POST /api/journal, DELETE /api/journal/:id, POST /api/mood,   *)
(* POST /api/gratitude; server C: DELETE /api/journal/:id                  *)

JournalColumns ==
    {"id", "user_id", "content", "category", "is_public", "created_at", "updated_at"}

\* POST /api/journal: INSERT INTO journal_entries ... RETURNING *, then
\* SELECT name FROM users WHERE id = $1 for the response
JournalPostA(r, h, content, category, isPublic) ==
    /\ Free(r)
    /\ LET auth == AuthenticateTokenA(h, now)
           s == [Passed("journalPostA", h, auth) EXCEPT
                    !.content = content, !.isPublic = isPublic]
           uid == auth.user.uid
           row == [id |-> journalSeq, user_id |-> uid, content |-> Trim(content.s),
                   category |-> OrElse(category, Null),
                   is_public |-> ~Falsy(OrElse(isPublic, Bool(FALSE))),
                   created_at |-> Timestamp(now)]
       IN IF ~auth.next
          THEN /\ reqs' = [reqs EXCEPT ![r] = Refused("journalPostA", h, auth)]
               /\ UNCHANGED <<journal, journalSeq>>
          ELSE IF Falsy(content)
          THEN /\ reqs' = [reqs EXCEPT ![r] =
                      Done([s EXCEPT !.touched = FALSE],
                           Reply(400, "Journal content is required"))]
               /\ UNCHANGED <<journal, journalSeq>>
          ELSE IF content.t # "string"
          THEN /\ reqs' = [reqs EXCEPT ![r] =
                      Thrown([s EXCEPT !.touched = FALSE], "TypeError",
                             Reply(500, "Internal server error"))]
               /\ UNCHANGED <<journal, journalSeq>>
          ELSE IF Trim(content.s) = ""
          THEN /\ reqs' = [reqs EXCEPT ![r] =
                      Done([s EXCEPT !.touched = FALSE],
                           Reply(400, "Journal content is required"))]
               /\ UNCHANGED <<journal, journalSeq>>
          ELSE /\ journalSeq <= MaxJournalId
               /\ journal' = journal \cup {row}
               /\ journalSeq' = journalSeq + 1
               /\ reqs' = [reqs EXCEPT ![r] =
                      IF UsersById(uid) = {}
                      THEN Thrown(s, "TypeError", Reply(500, "Internal server error"))
                      ELSE Done(s, ReplyUser(201, JournalColumns \cup {"user_name"},
                                             NoToken, uid))]
    /\ UNCHANGED <<users, userSeq, moods, moodSeq, gratitude, gratitudeSeq,
                   friends, friendSeq, tokens, now,
                   support, supportSeq, boot>>

DeleteMatchesAnyOwner(e, id, uid) == e.id = id

\* DELETE FROM journal_entries WHERE id = $1 AND user_id = $2
DeleteMatches(e, id, uid) == e.id = id /\ e.user_id = uid

\* the DELETE statement and the response, for the route parameter id
\* journal_entry_id INTEGER REFERENCES journal_entries(id) ON DELETE CASCADE:
\* the support_interactions rows left when the journal rows `gone` are deleted
SupportCascade(tbl, gone) ==
    {i \in tbl : \A e \in gone : i.journal_entry_id # Num(e.id)}

JournalDelete(r, s, id, uid) ==
    LET k == PgInt(id)
        hit == {e \in journal : DeleteMatches(e, k, uid)}
    IN IF k < 0
       THEN /\ reqs' = [reqs EXCEPT ![r] =
                   Thrown(s, "22P02", Reply(500, "Internal server error"))]
            /\ UNCHANGED <<journal, support>>
       ELSE IF hit = {}
       THEN /\ reqs' = [reqs EXCEPT ![r] = Done(s, Reply(404, "Journal entry not found"))]
            /\ UNCHANGED <<journal, support>>
       ELSE /\ journal' = journal \ hit
            /\ support' = SupportCascade(support, hit)
            /\ reqs' = [reqs EXCEPT ![r] = Done(s, ReplyUser(200, {}, NoToken, uid))]

\* DELETE /api/journal/:id of server A
JournalDeleteA(r, h, id) ==
    /\ Free(r)
    /\ LET auth == AuthenticateTokenA(h, now)
           s == [Passed("journalDeleteA", h, auth) EXCEPT !.target = id]
       IN IF ~auth.next
          THEN /\ reqs' = [reqs EXCEPT ![r] = Refused("journalDeleteA", h, auth)]
               /\ UNCHANGED <<journal, support>>
          ELSE JournalDelete(r, s, id, auth.user.uid)
    /\ UNCHANGED <<users, userSeq, journalSeq, moods, moodSeq, gratitude, gratitudeSeq,
                   friends, friendSeq, tokens, now,
                   supportSeq, boot>>

\* DELETE /api/journal/:id of server C
JournalDeleteC(r, h, id) ==
    /\ Free(r)
    /\ LET auth == AuthenticateTokenC(h, now)
           s == [Passed("journalDeleteC", h, auth) EXCEPT !.target = id]
       IN IF ~auth.next
          THEN /\ reqs' = [reqs EXCEPT ![r] = Refused("journalDeleteC", h, auth)]
               /\ UNCHANGED <<journal, support>>
          ELSE JournalDelete(r, s, id, auth.user.uid)
    /\ UNCHANGED <<users, userSeq, journalSeq, moods, moodSeq, gratitude, gratitudeSeq,
                   friends, friendSeq, tokens, now,
                   supportSeq, boot>>

MoodColumns == {"id", "user_id", "mood", "emoji", "date", "created_at"}

\* POST /api/mood up to its await: the checks on the body
MoodPostA(r, h, mood, emoji, date) ==
    /\ Free(r)
    /\ LET auth == AuthenticateTokenA(h, now)
           s == [Passed("moodPostA", h, auth) EXCEPT
                    !.mood = mood, !.emoji = emoji, !.date = date]
       IN reqs' = [reqs EXCEPT ![r] =
           IF ~auth.next THEN Refused("moodPostA", h, auth)
           ELSE IF Falsy(mood) \/ Falsy(emoji) \/ Falsy(date)
           THEN Done([s EXCEPT !.touched = FALSE],
                     Reply(400, "Mood, emoji, and date are required"))
           ELSE [s EXCEPT !.pc = "upsert"]]
    /\ UNCHANGED <<storeVars, tokens, now, boot>>

MoodConflictNever(row, uid, day) == FALSE

MoodConflictAnyUser(row, uid, day) == row.date = day

\* ON CONFLICT (user_id, date): UNIQUE(user_id, date) of mood_entries
MoodConflict(row, uid, day) == row.user_id = uid /\ row.date = day

\* INSERT INTO mood_entries ... ON CONFLICT (user_id, date) DO UPDATE SET
\* mood = $2, emoji = $3, created_at = CURRENT_TIMESTAMP; the sequence is
\* advanced for the proposed row whether or not it conflicts
MoodUpsertA(r) ==
    /\ reqs[r].op = "moodPostA" /\ reqs[r].pc = "upsert"
    /\ LET s == reqs[r]
           d == PgDate(s.date)
           old == {m \in moods : MoodConflict(m, s.user, d.day)}
           row == [id |-> moodSeq, user_id |-> s.user, mood |-> s.mood, emoji |-> s.emoji,
                   date |-> d.day, created_at |-> Timestamp(now)]
       IN IF ~d.ok
          THEN /\ reqs' = [reqs EXCEPT ![r] =
                      Thrown(s, "22007", Reply(500, "Internal server error"))]
               /\ UNCHANGED <<moods, moodSeq>>
          ELSE /\ moodSeq <= MaxMoodId
               /\ moodSeq' = moodSeq + 1
               /\ moods' = IF old = {} THEN moods \cup {row}
                           ELSE {IF m \in old
                                 THEN [m EXCEPT !.mood = s.mood, !.emoji = s.emoji,
                                                !.created_at = Timestamp(now)]
                                 ELSE m : m \in moods}
               /\ reqs' = [reqs EXCEPT ![r] =
                      Done(s, ReplyUser(200, MoodColumns, NoToken, s.user))]
    /\ UNCHANGED <<users, userSeq, journal, journalSeq, gratitude, gratitudeSeq,
                   friends, friendSeq, tokens, now,
                   support, supportSeq, boot>>

GratitudeColumns == {"id", "user_id", "content", "date", "created_at"}

\* POST /api/gratitude: INSERT INTO gratitude_entries (user_id, content, date)
GratitudePostA(r, h, content, date) ==
    /\ Free(r)
    /\ LET auth == AuthenticateTokenA(h, now)
           s == [Passed("gratitudePostA", h, auth) EXCEPT
                    !.content = content, !.date = date]
           uid == auth.user.uid
           d == PgDate(date)
           row == [id |-> gratitudeSeq, user_id |-> uid, content |-> Trim(content.s),
                   date |-> d.day, created_at |-> Timestamp(now)]
       IN IF ~auth.next
          THEN /\ reqs' = [reqs EXCEPT ![r] = Refused("gratitudePostA", h, auth)]
               /\ UNCHANGED <<gratitude, gratitudeSeq>>
          ELSE IF Falsy(content) \/ Falsy(date)
          THEN /\ reqs' = [reqs EXCEPT ![r] =
                      Done([s EXCEPT !.touched = FALSE],
                           Reply(400, "Content and date are required"))]
               /\ UNCHANGED <<gratitude, gratitudeSeq>>
          ELSE IF content.t # "string"
          THEN /\ reqs' = [reqs EXCEPT ![r] =
                      Thrown([s EXCEPT !.touched = FALSE], "TypeError",
                             Reply(500, "Internal server error"))]
               /\ UNCHANGED <<gratitude, gratitudeSeq>>
          ELSE IF ~d.ok
          THEN /\ reqs' = [reqs EXCEPT ![r] =
                      Thrown(s, "22007", Reply(500, "Internal server error"))]
               /\ UNCHANGED <<gratitude, gratitudeSeq>>
          ELSE /\ gratitudeSeq <= MaxGratitudeId
               /\ gratitude' = gratitude \cup {row}
               /\ gratitudeSeq' = gratitudeSeq + 1
               /\ reqs' = [reqs EXCEPT ![r] =
                      Done(s, ReplyUser(201, GratitudeColumns, NoToken, uid))]
    /\ UNCHANGED <<users, userSeq, journal, journalSeq, moods, moodSeq,
                   friends, friendSeq, tokens, now,
                   support, supportSeq, boot>>

-----------------------------------------------------------------------------
(* The store after initDatabase and insertSampleData (a development start  *)
(* on an empty database).  The journal texts are cut to their first words. *)

SamplePasswordText == "password123"

Sarah == Str("sarah@example.com")
Michael == Str("michael@example.com")
Emma == Str("emma@example.com")

SampleUser(id, email, name, age, gender, days) ==
    [id |-> id, email |-> email, password |-> Str(BcryptDigest(SamplePasswordText)),
     name |-> Str(name), age |-> Num(age), gender |-> Str(gender),
     bio |-> Str("bio"), profile_complete |-> TRUE,
     join_date |-> DaysBefore(StartTime, days)]

SampleUsers ==
    {SampleUser(1, Sarah, "Sarah Johnson", 28, "female", SampleDaysSarah),
     SampleUser(2, Michael, "Michael Chen", 34, "male", SampleDaysMichael),
     SampleUser(3, Emma, "Emma Rodriguez", 25, "female", SampleDaysEmma)}

SampleJournal ==
    {[id |-> 1, user_id |-> 1, content |-> "Today I practiced gratitude meditation",
      category |-> Str("mindfulness"), is_public |-> TRUE,
      created_at |-> DaysBefore(StartTime, 2)],
     [id |-> 2, user_id |-> 2, content |-> "Dealing with work stress",
      category |-> Str("stress"), is_public |-> TRUE,
      created_at |-> DaysBefore(StartTime, 1)],
     [id |-> 3, user_id |-> 3, content |-> "Art therapy session today",
      category |-> Str("personal-growth"), is_public |-> TRUE,
      created_at |-> Timestamp(StartTime)]}

SampleMood(id, uid, mood, emoji, daysAgo) ==
    [id |-> id, user_id |-> uid, mood |-> Str(mood), emoji |-> Str(emoji),
     date |-> Today(StartTime) - daysAgo, created_at |-> Timestamp(StartTime)]

\* the emoji are written by name
SampleMoods ==
    {SampleMood(1, 1, "happy", "smiling", 2), SampleMood(2, 1, "calm", "relieved", 1),
     SampleMood(3, 2, "anxious", "worried", 2), SampleMood(4, 2, "calm", "relieved", 1),
     SampleMood(5, 3, "happy", "smiling", 1)}

SampleStore ==
    /\ users = SampleUsers /\ userSeq = Cardinality(SampleUsers) + 1
    /\ journal = SampleJournal /\ journalSeq = Cardinality(SampleJournal) + 1
    /\ moods = SampleMoods /\ moodSeq = Cardinality(SampleMoods) + 1
    /\ gratitude = {} /\ gratitudeSeq = 1
    /\ friends = {} /\ friendSeq = 1
    /\ support = {} /\ supportSeq = 1

\* requests are processed concurrently, NSlots at a time
InitSample ==
    /\ SampleStore
    /\ tokens = {}
    /\ now = StartTime
    /\ boot = Booted
    /\ reqs = [r \in Slots |-> IdleSlot]

\* requests are processed one after the other
InitSampleSerial ==
    /\ SampleStore
    /\ tokens = {}
    /\ now = StartTime
    /\ boot = Booted
    /\ reqs = [r \in {1} |-> IdleSlot]

SamplePassword == Str(SamplePasswordText)

-----------------------------------------------------------------------------
(* The journal specification: Sarah and Michael log in on A, Sarah on C,   *)
(* and they create and delete journal entries, one request after the       *)
(* other.                                                                  *)

\* a client that is logged in to server `variant`, or sends no header
Callers(variant) == Sessions(variant) \cup {NoHeader}

\* route parameters: the id of Michael's sample entry, of the first entry a
\* request creates, and text that is not a number
JournalIds == {Str("2"), Str("4"), Str("x")}

NextJournal ==
    \E r \in DOMAIN reqs :
        \/ \E e \in {Sarah, Michael} : LoginAQuery(r, e, SamplePassword)
        \/ LoginACompare(r)
        \/ LoginCQuery(r, Sarah, SamplePassword)
        \/ LoginCCompare(r)
        \/ \E h \in Callers("A"), c \in {Undefined, Str(" dear diary ")},
              p \in {Undefined, Bool(TRUE)} :
               JournalPostA(r, h, c, Str("personal"), p)
        \/ \E h \in Callers("A"), id \in JournalIds : JournalDeleteA(r, h, id)
        \/ \E h \in Callers("C"), id \in JournalIds : JournalDeleteC(r, h, id)

SpecJournal == InitSampleSerial /\ [][NextJournal]_vars

-----------------------------------------------------------------------------
(* The entries specification: Sarah and Michael, logged in on A, create    *)
(* and delete journal, mood and gratitude rows, one request after the      *)
(* other.                                                                  *)

FirstOfJanuary == Str("1970-01-01")
LastOfDecember == Str("1969-12-31")

NextEntries ==
    \E r \in DOMAIN reqs :
        \/ \E e \in {Sarah, Michael} : LoginAQuery(r, e, SamplePassword)
        \/ LoginACompare(r)
        \/ \E h \in Sessions("A") :
               JournalPostA(r, h, Str("dear diary"), Undefined, Undefined)
        \/ \E h \in Sessions("A"), id \in {Str("1"), Str("2")} : JournalDeleteA(r, h, id)
        \/ \E h \in Sessions("A"), d \in {FirstOfJanuary, LastOfDecember} :
               MoodPostA(r, h, Str("tired"), Str("sleepy"), d)
        \/ MoodUpsertA(r)
        \/ \E h \in Sessions("A") : GratitudePostA(r, h, Str("sunshine"), FirstOfJanuary)

SpecEntries == InitSampleSerial /\ [][NextEntries]_vars

-----------------------------------------------------------------------------
(* Claims about the middleware and the tokens *)

\* the request of slot s went through authenticateToken
Protected(s) == s.op \in {"profileGetA", "profilePutA", "profileGetC"} /\ s.pc = "done"

\* jwt.verify would accept the token of slot s at the time s was processed
Verifies(s) == JwtVerify(HeaderToken(s.hdr), s.at) = "ok"

\* the middleware did exactly one of three things with the request of slot s
OneOutcome(s) ==
    LET tok == HeaderToken(s.hdr) IN
    /\ s.auth \in {"refused", "next"}
    /\ tok.kind = "none" =>
           s.auth = "refused" /\ s.resp.status = 401 /\ s.user = 0 /\ ~s.touched
    /\ (tok.kind # "none" /\ ~Verifies(s)) =>
           s.auth = "refused" /\ s.resp.status = 403 /\ s.user = 0 /\ ~s.touched
    /\ Verifies(s) =>
           s.auth = "next" /\ s.user = tok.uid /\ s.resp.status \notin {401, 403}

\* C5: for a protected operation the middleware answers 401 when the header
\* carries no token, answers 403 when the token does not verify, and otherwise
\* passes the request on with the token's user id attached; a step that
\* refuses a request leaves every table as it was, and the handler of a
\* refused request has not queried the store.
C5_MiddlewareOutcome ==
    /\ [](\A r \in DOMAIN reqs : Protected(reqs[r]) => OneOutcome(reqs[r]))
    /\ [][\A r \in DOMAIN reqs :
            (reqs'[r] # reqs[r] /\ reqs'[r].auth = "refused") => UNCHANGED storeVars]_vars

\* a profile update was refused because its token had expired, after the
\* same token had been accepted
C5_Witness ==
    \E r \in DOMAIN reqs :
        /\ reqs[r].op = "profilePutA" /\ reqs[r].pc = "done"
        /\ reqs[r].auth = "refused" /\ reqs[r].resp.status = 403
        /\ JwtVerify(HeaderToken(reqs[r].hdr), reqs[r].at) = "expired"
        /\ \E u \in users : u.id = HeaderToken(reqs[r].hdr).uid /\ u.profile_complete

\* the protected requests of server A that carried a token
WithToken(s) ==
    /\ s.op \in {"profileGetA", "profilePutA"} /\ s.pc = "done"
    /\ HeaderToken(s.hdr).kind # "none"

\* the times at which the token of slot s was issued by register or login
IssueTimes(s) == {i.at : i \in {k \in tokens : k.tok = HeaderToken(s.hdr)}}

AuthError == Reply(403, "Invalid or expired token")

\* C6 as stated: a token issued at time t is accepted at every time before
\* t + 7 days and refused from t + 7 days on, and every token that is not
\* accepted gets the same auth error.
C6_SevenDaysFromIssue ==
    \A r \in DOMAIN reqs :
        WithToken(reqs[r]) =>
            /\ \A t \in IssueTimes(reqs[r]) :
                   /\ reqs[r].at < t + ValidMs => reqs[r].auth = "next"
                   /\ reqs[r].at >= t + ValidMs => reqs[r].auth = "refused"
            /\ reqs[r].auth = "refused" => reqs[r].resp = AuthError

\* C6 amended: the token carries the whole second of its issue, and it is
\* accepted exactly while the clock's whole second is less than that second
\* plus 7 days; a malformed token, a token signed with another key and an
\* expired token all get the same 403 response.
C6_SevenDaysBySecond ==
    \A r \in DOMAIN reqs :
        WithToken(reqs[r]) =>
            /\ \A t \in IssueTimes(reqs[r]) :
                   reqs[r].auth = "next"
                       <=> ClockSeconds(reqs[r].at)
                              < ClockSeconds(t) + DaysValidA * SecondsPerDay
            /\ IssueTimes(reqs[r]) = {} => reqs[r].auth = "refused"
            /\ reqs[r].auth = "refused" => reqs[r].resp = AuthError

\* the token issued at StartTime was presented in the first whole second in
\* which it is expired, less than seven days after its issue, and refused
C6_Witness ==
    \E r \in DOMAIN reqs :
        /\ WithToken(reqs[r])
        /\ StartTime \in IssueTimes(reqs[r])
        /\ reqs[r].at < StartTime + ValidMs
        /\ reqs[r].auth = "refused" /\ reqs[r].resp = AuthError

-----------------------------------------------------------------------------
(* Claims about journal, mood and gratitude rows *)

\* the step in which slot r answers a request that passed the middleware
Answers(r, ops) ==
    /\ reqs'[r] # reqs[r]
    /\ reqs'[r].op \in ops /\ reqs'[r].pc = "done" /\ reqs'[r].auth = "next"

\* C7: when DELETE /journal/:id names an entry that is owned by a user other
\* than the caller, the answer is 404 and the entry is still in the table
\* after the request, whether the entry is public or private.
C7_ForeignDeleteNotFound ==
    [][\A r \in DOMAIN reqs :
        Answers(r, {"journalDeleteA", "journalDeleteC"}) =>
            \A e \in journal :
                (e.id = PgInt(reqs'[r].target) /\ e.user_id # reqs'[r].user)
                => /\ reqs'[r].resp = Reply(404, "Journal entry not found")
                   /\ e \in journal']_vars

\* a delete of another user's private entry was answered 404
C7_Witness ==
    \E r \in DOMAIN reqs : \E e \in journal :
        /\ reqs[r].op \in {"journalDeleteA", "journalDeleteC"} /\ reqs[r].pc = "done"
        /\ reqs[r].auth = "next" /\ reqs[r].resp.status = 404
        /\ e.id = PgInt(reqs[r].target) /\ e.user_id # reqs[r].user
        /\ ~e.is_public

OthersOf(tbl, uid) == {e \in tbl : e.user_id # uid}

SameOwners(old, new) == \A e \in old : \A f \in new : e.id = f.id => e.user_id = f.user_id

\* C8: a step taken for a request of user A leaves every journal, mood and
\* gratitude row of every other user as it was, every row it creates has A
\* as owner, and no row changes its owner.
C8_OwnRowsOnly ==
    [][\A r \in DOMAIN reqs :
        reqs'[r] # reqs[r] =>
            LET uid == reqs'[r].user IN
            /\ OthersOf(journal', uid) = OthersOf(journal, uid)
            /\ OthersOf(moods', uid) = OthersOf(moods, uid)
            /\ OthersOf(gratitude', uid) = OthersOf(gratitude, uid)
            /\ \A e \in (journal' \ journal) \cup (moods' \ moods)
                           \cup (gratitude' \ gratitude) : e.user_id = uid
            /\ SameOwners(journal, journal') /\ SameOwners(moods, moods')
            /\ SameOwners(gratitude, gratitude')]_vars

\* a user has replaced the mood of a date for which another user has a row
\* too, and has created a journal entry
C8_Witness ==
    \E r \in DOMAIN reqs : \E m, n \in moods :
        /\ reqs[r].op = "moodPostA" /\ reqs[r].pc = "done" /\ reqs[r].resp.status = 200
        /\ m.user_id = reqs[r].user /\ m.date = PgDate(reqs[r].date).day
        /\ m.mood = reqs[r].mood
        /\ n.user_id # m.user_id /\ n.date = m.date /\ n.mood # m.mood
        /\ \E e \in journal : e.user_id = reqs[r].user /\ e \notin SampleJournal

-----------------------------------------------------------------------------
(* The mood specification: Sarah, logged in on A, posts moods for dates    *)
(* written in several ways, two requests at a time.                        *)

MoodDates == {LastOfDecember, FirstOfJanuary, Str("1970-01-01T23:30:00.000Z")}

NextMood ==
    \E r \in DOMAIN reqs :
        \/ LoginAQuery(r, Sarah, SamplePassword)
        \/ LoginACompare(r)
        \/ \E h \in Sessions("A"), d \in MoodDates :
               \/ MoodPostA(r, h, Str("tired"), Str("sleepy"), d)
               \/ MoodPostA(r, h, Str("glad"), Str("grin"), d)
        \/ MoodUpsertA(r)

SpecMood == InitSample /\ [][NextMood]_vars

MoodKeyUnique ==
    \A m, n \in moods : ((m.user_id = n.user_id /\ m.date = n.date) \/ m.id = n.id) => m = n

\* the step in which the store applies the submission of slot r
MoodApplied(r) ==
    /\ reqs[r].op = "moodPostA" /\ reqs[r].pc = "upsert"
    /\ reqs'[r].pc = "done" /\ reqs'[r].resp.status = 200

\* C9: there is at most one mood row per user and date; the step in which
\* the store applies a submission leaves that row with the submission's mood
\* and emoji, and the mood rows change in no other step.
C9_OneRowLastApplied ==
    /\ []MoodKeyUnique
    /\ [][/\ \A r \in DOMAIN reqs :
               MoodApplied(r) =>
                   \E m \in moods' :
                       /\ m.user_id = reqs[r].user /\ m.date = PgDate(reqs[r].date).day
                       /\ m.mood = reqs[r].mood /\ m.emoji = reqs[r].emoji
          /\ moods' # moods => \E r \in DOMAIN reqs : MoodApplied(r)]_vars

\* two submissions of one user for one date, written in two ways, were
\* processed together; the store has applied one and not yet the other
C9_Witness ==
    \E r, q \in DOMAIN reqs : \E m \in moods :
        /\ reqs[r].op = "moodPostA" /\ reqs[r].pc = "done" /\ reqs[r].resp.status = 200
        /\ reqs[q].op = "moodPostA" /\ reqs[q].pc = "upsert"
        /\ reqs[r].user = reqs[q].user /\ reqs[r].date # reqs[q].date
        /\ PgDate(reqs[r].date) = PgDate(reqs[q].date)
        /\ reqs[r].mood # reqs[q].mood
        /\ m.user_id = reqs[r].user /\ m.date = PgDate(reqs[r].date).day
        /\ m.mood = reqs[r].mood
        /\ moodSeq = Cardinality(SampleMoods) + 3

-----------------------------------------------------------------------------
(* Friend requests: POST /api/friend-request of server A and               *)
(* POST /api/friends/request of server C                                   *)

FriendColumns ==
    {"id", "requester_id", "requested_id", "status", "created_at", "updated_at"}

\* UNIQUE(requester_id, requested_id) of friend_requests
UniquePairViolated(tbl, a, b) == \E f \in tbl : f.requester_id = a /\ f.requested_id = b

\* requested_id INTEGER REFERENCES users(id)
ForeignKeyViolated(id) == UsersById(id) = {}

FriendRow(id, a, b) ==
    [id |-> id, requester_id |-> a, requested_id |-> b, status |-> "pending",
     created_at |-> Timestamp(now)]

\* INSERT INTO friend_requests (requester_id, requested_id) VALUES ($1, $2):
\* "ok" or the code of the error the store raises
FriendInsertOutcome(uid, requestedId) ==
    IF PgInt(requestedId) < 0 THEN "22P02"
    ELSE IF UniquePairViolated(friends, uid, PgInt(requestedId)) THEN "23505"
    ELSE IF ForeignKeyViolated(PgInt(requestedId)) THEN "23503"
    ELSE "ok"

\* POST /api/friend-request of server A
FriendRequestA(r, h, requestedId) ==
    /\ Free(r)
    /\ LET auth == AuthenticateTokenA(h, now)
           s == [Passed("friendRequestA", h, auth) EXCEPT !.target = requestedId]
           uid == auth.user.uid
           outcome == FriendInsertOutcome(uid, requestedId)
       IN IF ~auth.next
          THEN /\ reqs' = [reqs EXCEPT ![r] = Refused("friendRequestA", h, auth)]
               /\ UNCHANGED <<friends, friendSeq>>
          ELSE IF Falsy(requestedId)
          THEN /\ reqs' = [reqs EXCEPT ![r] =
                      Done([s EXCEPT !.touched = FALSE],
                           Reply(400, "Requested user ID is required"))]
               /\ UNCHANGED <<friends, friendSeq>>
          ELSE IF StrictEq(requestedId, Num(uid))
          THEN /\ reqs' = [reqs EXCEPT ![r] =
                      Done([s EXCEPT !.touched = FALSE],
                           Reply(400, "Cannot send friend request to yourself"))]
               /\ UNCHANGED <<friends, friendSeq>>
          ELSE IF outcome = "22P02"
          THEN /\ reqs' = [reqs EXCEPT ![r] =
                      Thrown(s, outcome, Reply(500, "Internal server error"))]
               /\ UNCHANGED <<friends, friendSeq>>
          ELSE /\ friendSeq <= MaxFriendId
               /\ friendSeq' = friendSeq + 1
               /\ IF outcome = "23505"
                  THEN /\ reqs' = [reqs EXCEPT ![r] =
                              Thrown(s, outcome, Reply(400, "Friend request already sent"))]
                       /\ UNCHANGED friends
                  ELSE IF outcome = "23503"
                  THEN /\ reqs' = [reqs EXCEPT ![r] =
                              Thrown(s, outcome, Reply(500, "Internal server error"))]
                       /\ UNCHANGED friends
                  ELSE /\ friends' = friends
                              \cup {FriendRow(friendSeq, uid, PgInt(requestedId))}
                       /\ reqs' = [reqs EXCEPT ![r] =
                              Done(s, ReplyUser(201, FriendColumns, NoToken, uid))]
    /\ UNCHANGED <<users, userSeq, journal, journalSeq, moods, moodSeq,
                   gratitude, gratitudeSeq, tokens, now,
                   support, supportSeq, boot>>

\* POST /api/friends/request of server C up to its second await: the checks
\* on the body, then SELECT * FROM friend_requests WHERE requester_id = $1
\* AND requested_id = $2
FriendRequestCQuery(r, h, userId) ==
    /\ Free(r)
    /\ LET auth == AuthenticateTokenC(h, now)
           s == [Passed("friendRequestC", h, auth) EXCEPT !.target = userId]
           uid == auth.user.uid
       IN reqs' = [reqs EXCEPT ![r] =
           IF ~auth.next THEN Refused("friendRequestC", h, auth)
           ELSE IF Falsy(userId)
           THEN Done(s, Reply(400, "User ID is required"))
           ELSE IF StrictEq(userId, Num(uid))
           THEN Done(s, Reply(400, "Cannot send friend request to yourself"))
           ELSE IF PgInt(userId) < 0
           THEN Thrown(s, "22P02", Reply(500, "Internal server error"))
           ELSE IF UniquePairViolated(friends, uid, PgInt(userId))
           THEN Done(s, Reply(400, "Friend request already sent"))
           ELSE [s EXCEPT !.pc = "insert"]]
    /\ UNCHANGED <<storeVars, tokens, now, boot>>

\* INSERT INTO friend_requests (requester_id, requested_id) ... RETURNING *, 201
FriendRequestCInsert(r) ==
    /\ reqs[r].op = "friendRequestC" /\ reqs[r].pc = "insert"
    /\ friendSeq <= MaxFriendId
    /\ LET s == reqs[r]
           outcome == FriendInsertOutcome(s.user, s.target)
       IN /\ friendSeq' = friendSeq + 1
          /\ IF outcome # "ok"
             THEN /\ reqs' = [reqs EXCEPT ![r] =
                         Thrown(s, outcome, Reply(500, "Internal server error"))]
                  /\ UNCHANGED friends
             ELSE /\ friends' = friends
                         \cup {FriendRow(friendSeq, s.user, PgInt(s.target))}
                  /\ reqs' = [reqs EXCEPT ![r] =
                         Done(s, ReplyUser(201, FriendColumns, NoToken, s.user))]
    /\ UNCHANGED <<users, userSeq, journal, journalSeq, moods, moodSeq,
                   gratitude, gratitudeSeq, tokens, now,
                   support, supportSeq, boot>>

-----------------------------------------------------------------------------
(* The friends specification: Sarah logs in on A and on C and sends friend *)
(* requests whose target id is a number or a numeric string.               *)

TargetIds == {Undefined, Num(1), Str("1"), Num(2), Str("2"), Str("x")}

NextFriends ==
    \E r \in DOMAIN reqs :
        \/ LoginAQuery(r, Sarah, SamplePassword)
        \/ LoginACompare(r)
        \/ LoginCQuery(r, Sarah, SamplePassword)
        \/ LoginCCompare(r)
        \/ \E h \in Callers("A"), id \in TargetIds : FriendRequestA(r, h, id)
        \/ \E h \in Callers("C"), id \in TargetIds : FriendRequestCQuery(r, h, id)
        \/ FriendRequestCInsert(r)

SpecFriends == InitSampleSerial /\ [][NextFriends]_vars

FriendRequest(s) ==
    s.op \in {"friendRequestA", "friendRequestC"} /\ s.pc = "done" /\ s.auth = "next"

\* C10: a friend request whose target id, a number or a numeric string,
\* denotes the caller is answered 400, and no friend_requests row has the
\* same user as requester and as requested.
C10_NoSelfRequest ==
    /\ \A r \in DOMAIN reqs :
           (FriendRequest(reqs[r]) /\ PgInt(reqs[r].target) = reqs[r].user)
           => reqs[r].resp.status = 400
    /\ \A f \in friends : f.requester_id # f.requested_id

-----------------------------------------------------------------------------
(* The friends race specification: Sarah, logged in on A and on C, sends   *)
(* friend requests to Michael, two requests at a time.                     *)

NextFriendsRace ==
    \E r \in DOMAIN reqs :
        \/ LoginAQuery(r, Sarah, SamplePassword)
        \/ LoginACompare(r)
        \/ LoginCQuery(r, Sarah, SamplePassword)
        \/ LoginCCompare(r)
        \/ \E h \in Sessions("A"), id \in {Num(2), Str("2")} : FriendRequestA(r, h, id)
        \/ \E h \in Sessions("C"), id \in {Num(2), Str("2")} : FriendRequestCQuery(r, h, id)
        \/ FriendRequestCInsert(r)

SpecFriendsRace == InitSample /\ [][NextFriendsRace]_vars

FriendPairUnique ==
    \A f, g \in friends :
        ((f.requester_id = g.requester_id /\ f.requested_id = g.requested_id)
            \/ f.id = g.id) => f = g

\* C11: there is at most one friend request row per ordered pair, and a
\* request from A to another existing user B that does not create the row
\* (one from A to B exists already) is answered 400 "Friend request already
\* sent", also when two such requests are processed together.
C11_DuplicateGetsConflict ==
    /\ FriendPairUnique
    /\ \A r \in DOMAIN reqs :
           (/\ FriendRequest(reqs[r])
            /\ PgInt(reqs[r].target) # reqs[r].user
            /\ UsersById(PgInt(reqs[r].target)) # {}
            /\ reqs[r].resp.status # 201)
           => reqs[r].resp = Reply(400, "Friend request already sent")

-----------------------------------------------------------------------------
(* Server C: PUT /api/friends/request/:id *)

\* ["accepted", "rejected"].includes(status)
StatusAllowed(status) == \E x \in {"accepted", "rejected"} : StrictEq(status, Str(x))

RespondMatchesAnyParty(f, id, uid) == f.id = id

\* UPDATE friend_requests ... WHERE id = $2 AND requested_id = $3
RespondMatches(f, id, uid) == f.id = id /\ f.requested_id = uid

\* PUT /api/friends/request/:id: UPDATE friend_requests SET status = $1,
\* updated_at = CURRENT_TIMESTAMP WHERE id = $2 AND requested_id = $3
FriendRespondC(r, h, id, status) ==
    /\ Free(r)
    /\ LET auth == AuthenticateTokenC(h, now)
           s == [Passed("friendRespondC", h, auth) EXCEPT !.target = id, !.status = status]
           uid == auth.user.uid
           k == PgInt(id)
           hit == {f \in friends : RespondMatches(f, k, uid)}
       IN IF ~auth.next
          THEN /\ reqs' = [reqs EXCEPT ![r] = Refused("friendRespondC", h, auth)]
               /\ UNCHANGED friends
          ELSE IF ~StatusAllowed(status)
          THEN /\ reqs' = [reqs EXCEPT ![r] = Done(s, Reply(400, "Invalid status"))]
               /\ UNCHANGED friends
          ELSE IF k < 0
          THEN /\ reqs' = [reqs EXCEPT ![r] =
                      Thrown(s, "22P02", Reply(500, "Internal server error"))]
               /\ UNCHANGED friends
          ELSE IF hit = {}
          THEN /\ reqs' = [reqs EXCEPT ![r] =
                      Done(s, Reply(404, "Friend request not found"))]
               /\ UNCHANGED friends
          ELSE /\ friends' = {IF f \in hit THEN [f EXCEPT !.status = status.s] ELSE f :
                                 f \in friends}
               /\ reqs' = [reqs EXCEPT ![r] =
                      Done(s, ReplyUser(200, FriendColumns, NoToken, uid))]
    /\ UNCHANGED <<users, userSeq, journal, journalSeq, moods, moodSeq,
                   gratitude, gratitudeSeq, friendSeq, tokens, now,
                   support, supportSeq, boot>>

-----------------------------------------------------------------------------
(* The respond specification: Sarah, Michael and Emma log in on C; friend  *)
(* requests are sent to Michael and answered by any of the three, one      *)
(* request after the other.                                                *)

StatusInputs == {Undefined, Str("pending"), Str("accepted"), Str("rejected")}

NextRespond ==
    \E r \in DOMAIN reqs :
        \/ \E e \in {Sarah, Michael, Emma} : LoginCQuery(r, e, SamplePassword)
        \/ LoginCCompare(r)
        \/ \E h \in Sessions("C") : FriendRequestCQuery(r, h, Num(2))
        \/ FriendRequestCInsert(r)
        \/ \E h \in Sessions("C"), id \in {Str("1"), Str("x")}, st \in StatusInputs :
               FriendRespondC(r, h, id, st)

SpecRespond == InitSampleSerial /\ [][NextRespond]_vars

\* the request of slot r names friend request f and its caller is not the
\* requested party of f
RespondsAsOutsider(r, f) ==
    /\ Answers(r, {"friendRespondC"})
    /\ f.id = PgInt(reqs'[r].target) /\ f.requested_id # reqs'[r].user

\* C12 as stated: a PUT /friends/request/:id by a user who is not the
\* requested party of that request is always answered 404 and leaves the
\* request as it was.
C12_OutsiderNotFound ==
    [][\A r \in DOMAIN reqs : \A f \in friends :
        RespondsAsOutsider(r, f) =>
            /\ reqs'[r].resp = Reply(404, "Friend request not found")
            /\ f \in friends']_vars

\* C12 amended: such a PUT leaves the request as it was; it is answered 404
\* when the submitted status is accepted or rejected and 400 "Invalid
\* status" otherwise.
C12_OutsiderChangesNothing ==
    [][\A r \in DOMAIN reqs : \A f \in friends :
        RespondsAsOutsider(r, f) =>
            /\ f \in friends'
            /\ reqs'[r].resp = IF StatusAllowed(reqs'[r].status)
                               THEN Reply(404, "Friend request not found")
                               ELSE Reply(400, "Invalid status")]_vars

\* the requester tried to accept the request they sent and got 404; the
\* request is still pending
C12_Witness ==
    \E r \in DOMAIN reqs : \E f \in friends :
        /\ reqs[r].op = "friendRespondC" /\ reqs[r].pc = "done"
        /\ f.id = PgInt(reqs[r].target) /\ f.requester_id = reqs[r].user
        /\ f.requested_id # reqs[r].user
        /\ reqs[r].status = Str("accepted") /\ reqs[r].resp.status = 404
        /\ f.status = "pending"

FriendStatuses == {"pending", "accepted", "rejected"}

\* C13: the status of a friend request is pending, accepted or rejected; a
\* new request is pending, and a request that is accepted or rejected keeps
\* its status in every later step.
C13_TerminalStatus ==
    /\ [](\A f \in friends : f.status \in FriendStatuses)
    /\ [][/\ \A g \in friends' :
               (\A f \in friends : f.id # g.id) => g.status = "pending"
          /\ \A f \in friends : \A g \in friends' :
               (f.id = g.id /\ f.status # "pending") => g.status = f.status]_vars

-----------------------------------------------------------------------------
(* Server C: PUT /api/user/profile *)

ProfilePutCFields == {"id", "name", "email", "age", "gender", "bio", "profile_complete"}

\* UPDATE users SET name = $1, age = $2, gender = $3, bio = $4,
\* profile_complete = true WHERE id = $5; the body is not checked
ProfilePutC(r, h, name, age, gender, bio) ==
    /\ Free(r)
    /\ LET auth == AuthenticateTokenC(h, now)
           s == [Passed("profilePutC", h, auth) EXCEPT
                    !.name = name, !.age = age, !.gender = gender]
           hit == UsersById(auth.user.uid)
       IN IF ~auth.next
          THEN /\ reqs' = [reqs EXCEPT ![r] = Refused("profilePutC", h, auth)]
               /\ UNCHANGED users
          ELSE /\ users' = {IF u \in hit
                            THEN [u EXCEPT !.name = PgParam(name), !.age = PgParam(age),
                                           !.gender = PgParam(gender), !.bio = PgParam(bio),
                                           !.profile_complete = TRUE]
                            ELSE u : u \in users}
               /\ reqs' = [reqs EXCEPT ![r] =
                      Done(s, ReplyUser(200, ProfilePutCFields, NoToken, auth.user.uid))]
    /\ UNCHANGED <<userSeq, journal, journalSeq, moods, moodSeq, gratitude,
                   gratitudeSeq, friends, friendSeq, tokens, now,
                   support, supportSeq, boot>>

-----------------------------------------------------------------------------
(* The profile specification: one user registers on A, logs in on C and    *)
(* updates the profile on A and on C with name, age and gender present or  *)
(* missing, one request after the other.                                   *)

NextProfile ==
    \E r \in DOMAIN reqs :
        \/ RegisterAQuery(r, EmailA, GoodPassword, Undefined)
        \/ RegisterAHash(r)
        \/ RegisterAInsert(r)
        \/ LoginCQuery(r, EmailA, GoodPassword)
        \/ LoginCCompare(r)
        \/ \E h \in Sessions("A"), n \in {Undefined, Str("Ann")}, a \in {Undefined, Num(30)},
              g \in {Undefined, Str("female")} : ProfilePutA(r, h, n, a, g, Undefined)
        \/ \E h \in Sessions("C"), n \in {Undefined, Str("Ann")}, a \in {Undefined, Num(30)},
              g \in {Undefined, Str("female")} : ProfilePutC(r, h, n, a, g, Undefined)

SpecProfile == InitEmptySerial /\ [][NextProfile]_vars

ProfilePuts == {"profilePutA", "profilePutC"}

\* the body of the profile update of slot s has name, age and gender
FullProfile(s) == ~Falsy(s.name) /\ ~Falsy(s.age) /\ ~Falsy(s.gender)

\* C14: a user is created with profile_complete false; the flag becomes true
\* only in the step of a successful profile update of that user whose body
\* has name, age and gender; an authenticated profile update that misses one
\* of the three is answered 400 and changes nothing; a flag that is true stays true.
C14_CompleteOnlyWhenFull ==
    [][/\ \A v \in users' :
             (\A u \in users : u.id # v.id) => ~v.profile_complete
       /\ \A u \in users : \A v \in users' :
             (u.id = v.id /\ u.profile_complete) => v.profile_complete
       /\ \A u \in users : \A v \in users' :
             (u.id = v.id /\ ~u.profile_complete /\ v.profile_complete) =>
                 \E r \in DOMAIN reqs :
                     /\ Answers(r, ProfilePuts) /\ reqs'[r].user = v.id
                     /\ reqs'[r].resp.status = 200 /\ FullProfile(reqs'[r])
       /\ \A r \in DOMAIN reqs :
             (Answers(r, ProfilePuts) /\ reqs'[r].auth = "next" /\ ~FullProfile(reqs'[r])) =>
                 /\ reqs'[r].resp.status = 400
                 /\ UNCHANGED storeVars]_vars

-----------------------------------------------------------------------------
(* GET /api/journal/public *)

\* LIMIT 50 of server A's public listing
PublicLimit == 50

\* created_at of a is later than created_at of b
Later(a, b) == a.day > b.day \/ (a.day = b.day /\ a.ms > b.ms)

\* the row ORDER BY created_at DESC puts first; rows with equal created_at
\* come in an order the statement does not fix (tie: by id up or down)
Newest(S, tie) ==
    LET top == {e \in S : \A f \in S : ~Later(f.created_at, e.created_at)}
    IN CHOOSE e \in top : \A f \in top : IF tie = "up" THEN e.id <= f.id ELSE e.id >= f.id

RECURSIVE OrderByCreatedDesc(_, _)
OrderByCreatedDesc(S, tie) ==
    IF S = {} THEN <<>>
    ELSE LET e == Newest(S, tie) IN <<e>> \o OrderByCreatedDesc(S \ {e}, tie)

\* LIMIT n
Limit(seq, n) == IF Len(seq) <= n THEN seq ELSE SubSeq(seq, 1, n)

\* a public listing that leaves the WHERE je.is_public = true out
PublicJournalAll(tie) ==
    LET hit == {e \in journal : UsersById(e.user_id) # {}}
        sorted == OrderByCreatedDesc(hit, tie)
    IN [i \in 1..Len(sorted) |->
            [id |-> sorted[i].id, user_id |-> sorted[i].user_id,
             is_public |-> TRUE, created_at |-> sorted[i].created_at,
             user_name |-> (CHOOSE u \in UsersById(sorted[i].user_id) : TRUE).name]]

\* SELECT je.*, u.name as user_name FROM journal_entries je JOIN users u
\* ON je.user_id = u.id WHERE je.is_public = true ORDER BY je.created_at DESC
PublicJournal(tie) ==
    LET hit == {e \in journal : e.is_public /\ UsersById(e.user_id) # {}}
        sorted == OrderByCreatedDesc(hit, tie)
    IN [i \in 1..Len(sorted) |->
            [id |-> sorted[i].id, user_id |-> sorted[i].user_id,
             is_public |-> sorted[i].is_public, created_at |-> sorted[i].created_at,
             user_name |-> (CHOOSE u \in UsersById(sorted[i].user_id) : TRUE).name]]

\* server A: no authentication, LIMIT 50
JournalPublicA(r, tie) ==
    /\ Free(r)
    /\ reqs' = [reqs EXCEPT ![r] =
           Done([NewRequest("journalPublicA", Undefined, Undefined, Undefined) EXCEPT
                    !.touched = TRUE, !.rows = Limit(PublicJournal(tie), PublicLimit)],
                Reply(200, ""))]
    /\ UNCHANGED <<storeVars, tokens, now, boot>>

\* server C: behind authenticateToken, no LIMIT
JournalPublicC(r, h, tie) ==
    /\ Free(r)
    /\ LET auth == AuthenticateTokenC(h, now)
       IN reqs' = [reqs EXCEPT ![r] =
              IF ~auth.next
              THEN Refused("journalPublicC", h, auth)
              ELSE Done([Passed("journalPublicC", h, auth) EXCEPT
                            !.rows = PublicJournal(tie)],
                        Reply(200, ""))]
    /\ UNCHANGED <<storeVars, tokens, now, boot>>

-----------------------------------------------------------------------------
(* The listing specification: the sample store after further journal       *)
(* entries were created, so that the public entries number one fewer than  *)
(* the limit, the limit, or one more; Sarah logs in on C, deletes entries, *)
(* and the public listing of A and of C is read.                           *)

\* ids of the further entries that are private
BulkPrivate == {4, 5}

\* the further entries: created by the three users in turn, two in each
\* millisecond after the sample data
BulkRow(i) ==
    [id |-> i, user_id |-> (i % Cardinality(SampleUsers)) + 1, content |-> "entry",
     category |-> Null, is_public |-> i \notin BulkPrivate,
     created_at |-> Timestamp(StartTime + i \div 2)]

BulkJournal(n) == SampleJournal \cup {BulkRow(i) : i \in (Cardinality(SampleJournal) + 1)..n}

BulkSizes ==
    {PublicLimit + Cardinality(BulkPrivate) + d : d \in {-1, 0, 1}}

InitBulk ==
    \E n \in BulkSizes :
        /\ users = SampleUsers /\ userSeq = Cardinality(SampleUsers) + 1
        /\ journal = BulkJournal(n) /\ journalSeq = n + 1
        /\ moods = SampleMoods /\ moodSeq = Cardinality(SampleMoods) + 1
        /\ gratitude = {} /\ gratitudeSeq = 1
        /\ friends = {} /\ friendSeq = 1
        /\ support = {} /\ supportSeq = 1
        /\ tokens = {}
        /\ now = StartTime + n \div 2
        /\ boot = Booted
        /\ reqs = [r \in {1} |-> IdleSlot]

\* route parameters of the deletes: Sarah's sample entry and two of her
\* further entries
ListingDeletes == {Str("1"), Str("6"), Str("9")}

NextListing ==
    \E r \in DOMAIN reqs :
        \/ LoginCQuery(r, Sarah, SamplePassword)
        \/ LoginCCompare(r)
        \/ \E h \in Sessions("C"), id \in ListingDeletes : JournalDeleteC(r, h, id)
        \/ \E tie \in {"up", "down"} : JournalPublicA(r, tie)
        \/ \E h \in Sessions("C"), tie \in {"up", "down"} : JournalPublicC(r, h, tie)

SpecListing == InitBulk /\ [][NextListing]_vars

ListingOps == {"journalPublicA", "journalPublicC"}

\* the public listing answered in slot r
Listed(r) ==
    /\ reqs[r].op \in ListingOps /\ reqs[r].pc = "done" /\ reqs[r].resp.status = 200

\* C15: every answer of the public journal listing has only entries with
\* is_public = true, in order of creation time with the newest first, and
\* at most 50 entries, however many public entries the table has.
C15_PublicListing ==
    \A r \in DOMAIN reqs :
        Listed(r) =>
            LET rows == reqs[r].rows
            IN /\ \A i \in 1..Len(rows) : rows[i].is_public
               /\ \A i \in 1..Len(rows) : \A j \in 1..Len(rows) :
                      i < j => ~Later(rows[j].created_at, rows[i].created_at)
               /\ Len(rows) <= PublicLimit

-----------------------------------------------------------------------------
(* Server C: POST /api/journal *)

\* a body value sent as the parameter of a TEXT column
PgText(v) ==
    IF v.t = "string" THEN v.s
    ELSE IF v.t = "number" THEN ToString(v.n)
    ELSE IF v.t = "boolean" THEN (IF v.n = 1 THEN "true" ELSE "false")
    ELSE ""

\* if (!content) 400; INSERT INTO journal_entries (user_id, content, category,
\* is_public) VALUES (req.user.id, content, category, isPublic || false)
JournalPostC(r, h, content, category, isPublic) ==
    /\ Free(r)
    /\ LET auth == AuthenticateTokenC(h, now)
           s == [Passed("journalPostC", h, auth) EXCEPT !.content = content]
           uid == auth.user.uid
           row == [id |-> journalSeq, user_id |-> uid, content |-> PgText(content),
                   category |-> PgParam(category),
                   is_public |-> ~Falsy(OrElse(isPublic, Bool(FALSE))),
                   created_at |-> Timestamp(now)]
       IN IF ~auth.next
          THEN /\ reqs' = [reqs EXCEPT ![r] = Refused("journalPostC", h, auth)]
               /\ UNCHANGED <<journal, journalSeq>>
          ELSE IF Falsy(content)
          THEN /\ reqs' = [reqs EXCEPT ![r] =
                      Done([s EXCEPT !.touched = FALSE], Reply(400, "Content is required"))]
               /\ UNCHANGED <<journal, journalSeq>>
          ELSE /\ journalSeq <= MaxJournalId
               /\ journal' = journal \cup {row}
               /\ journalSeq' = journalSeq + 1
               /\ reqs' = [reqs EXCEPT ![r] =
                      Done(s, ReplyUser(201, JournalColumns, NoToken, uid))]
    /\ UNCHANGED <<users, userSeq, moods, moodSeq, gratitude, gratitudeSeq,
                   friends, friendSeq, tokens, now,
                   support, supportSeq, boot>>

-----------------------------------------------------------------------------
(* The content specification: Sarah logs in on A and on C and creates      *)
(* journal and gratitude entries whose content is missing, empty, blank or *)
(* text, one request after the other.                                      *)

Contents == {Undefined, Str(""), Str(" "), Str(" thanks ")}

NextContent ==
    \E r \in DOMAIN reqs :
        \/ LoginAQuery(r, Sarah, SamplePassword)
        \/ LoginACompare(r)
        \/ LoginCQuery(r, Sarah, SamplePassword)
        \/ LoginCCompare(r)
        \/ \E h \in Sessions("A"), c \in Contents :
               JournalPostA(r, h, c, Undefined, Undefined)
        \/ \E h \in Sessions("C"), c \in Contents :
               JournalPostC(r, h, c, Undefined, Undefined)
        \/ \E h \in Sessions("A"), c \in Contents :
               GratitudePostA(r, h, c, FirstOfJanuary)

SpecContent == InitSampleSerial /\ [][NextContent]_vars

CreateOps == {"journalPostA", "journalPostC", "gratitudePostA"}

\* the content of slot s is missing, empty or whitespace only
Blank(s) == Falsy(s.content) \/ (s.content.t = "string" /\ Trim(s.content.s) = "")

\* C16: an authenticated journal or gratitude create request whose content
\* is empty or whitespace only is answered 400 without a query to the
\* store, and every stored journal and gratitude entry has content that is
\* not empty after trimming.
C16_ContentRequired ==
    /\ \A r \in DOMAIN reqs :
           (reqs[r].op \in CreateOps /\ reqs[r].pc = "done" /\ reqs[r].auth = "next"
                /\ Blank(reqs[r])) =>
               reqs[r].resp.status = 400 /\ ~reqs[r].touched
    /\ \A e \in journal \cup gratitude : Trim(e.content) # ""

-----------------------------------------------------------------------------
(* Server C: POST /api/register *)

RegisterCUserFields == {"id", "name", "email", "profileComplete"}

\* if (!name || !email || !password) 400; SELECT * FROM users WHERE email = $1
RegisterCQuery(r, email, password, name) ==
    /\ Free(r)
    /\ LET s == NewRequest("registerC", email, password, name) IN
       reqs' = [reqs EXCEPT ![r] =
           IF Falsy(name) \/ Falsy(email) \/ Falsy(password)
           THEN Done(s, Reply(400, "All fields are required"))
           ELSE IF UsersByEmail(PgParam(email)) # {}
           THEN Done(s, Reply(400, "Email already registered"))
           ELSE [s EXCEPT !.pc = "hash"]]
    /\ UNCHANGED <<storeVars, tokens, now, boot>>

\* await bcrypt.hash(password, saltRounds)
RegisterCHash(r) ==
    /\ reqs[r].op = "registerC" /\ reqs[r].pc = "hash"
    /\ LET s == reqs[r] IN
       reqs' = [reqs EXCEPT ![r] =
           IF BcryptHashThrows(s.password)
           THEN Thrown(s, "bcrypt", Reply(500, "Internal server error"))
           ELSE [s EXCEPT !.pc = "insert", !.hashed = BcryptDigest(s.password.s)]]
    /\ UNCHANGED <<storeVars, tokens, now, boot>>

\* INSERT INTO users (name, email, password) ... RETURNING, generateToken, 201
RegisterCInsert(r) ==
    /\ reqs[r].op = "registerC" /\ reqs[r].pc = "insert"
    /\ userSeq <= MaxUserId
    /\ LET s == reqs[r]
           id == userSeq
           row == [NoRow EXCEPT !.id = id, !.email = PgParam(s.email),
                                !.password = Str(s.hashed),
                                !.name = PgParam(s.name), !.join_date = Timestamp(now)]
           token == JwtSign("C", id, Null, now)
       IN /\ userSeq' = userSeq + 1
          /\ IF UniqueEmailViolated(users, id, row.email)
             THEN /\ reqs' = [reqs EXCEPT ![r] =
                         Thrown(s, "23505", Reply(500, "Internal server error"))]
                  /\ UNCHANGED <<users, tokens>>
             ELSE /\ users' = users \cup {row}
                  /\ tokens' = tokens \cup {[tok |-> token, at |-> now]}
                  /\ reqs' = [q \in DOMAIN reqs |->
                         IF q = r
                         THEN Done(s, ReplyUser(201, RegisterCUserFields, token, id))
                         ELSE MarkRaced(reqs[q], row.email)]
    /\ UNCHANGED <<journal, journalSeq, moods, moodSeq, gratitude, gratitudeSeq,
                   friends, friendSeq, now,
                   support, supportSeq, boot>>

-----------------------------------------------------------------------------
(* The validation specification: registration on A, B and C with the email *)
(* and the password missing or present and the password short or long      *)
(* enough, one request after the other.                                    *)

ShortPassword == Str("abc")

RegisterEmails == {Undefined, EmailA}

RegisterPasswords == {Undefined, ShortPassword, GoodPassword}

NextValidate ==
    \E r \in DOMAIN reqs :
        \/ \E e \in RegisterEmails, p \in RegisterPasswords :
               RegisterAQuery(r, e, p, Str("Ann"))
        \/ RegisterAHash(r)
        \/ RegisterAInsert(r)
        \/ \E e \in RegisterEmails, p \in RegisterPasswords :
               SignupBQuery(r, e, p, Str("Ann"))
        \/ SignupBHash(r)
        \/ SignupBInsert(r)
        \/ \E e \in RegisterEmails, p \in RegisterPasswords :
               RegisterCQuery(r, e, p, Str("Ann"))
        \/ RegisterCHash(r)
        \/ RegisterCInsert(r)

SpecValidate == InitEmptySerial /\ [][NextValidate]_vars

RegisterOps == {"registerA", "signupB", "registerC"}

\* the body of the registration of slot s misses the email or the password,
\* or its password has fewer than 6 characters
InvalidRegisterBody(s) ==
    Falsy(s.email) \/ Falsy(s.password) \/ LengthBelow(s.password, MinPasswordLength)

\* C17: a registration whose email or password is missing or whose password
\* has fewer than 6 characters is answered 400, and no step taken for such
\* a registration creates a user.
C17_RegisterValidates ==
    [][\A r \in DOMAIN reqs :
           (reqs'[r] # reqs[r] /\ reqs'[r].op \in RegisterOps
                /\ InvalidRegisterBody(reqs'[r])) =>
               /\ users' = users
               /\ reqs'[r].pc = "done" => reqs'[r].resp.status = 400]_vars

-----------------------------------------------------------------------------
(* Server A: POST /api/support *)

SupportColumns ==
    {"id", "sender_id", "receiver_id", "journal_entry_id", "interaction_type", "created_at"}

\* INSERT INTO support_interactions (sender_id, receiver_id, journal_entry_id,
\* interaction_type): "ok" or the code of the error the store raises
SupportInsertOutcome(receiverId, entryId) ==
    IF PgInt(receiverId) < 0 THEN "22P02"
    ELSE IF entryId # Null /\ PgInt(entryId) < 0 THEN "22P02"
    ELSE IF UsersById(PgInt(receiverId)) = {} THEN "23503"
    ELSE IF entryId # Null /\ ~\E e \in journal : e.id = PgInt(entryId) THEN "23503"
    ELSE "ok"

SupportPostA(r, h, receiverId, journalEntryId) ==
    /\ Free(r)
    /\ LET auth == AuthenticateTokenA(h, now)
           s == [Passed("supportPostA", h, auth) EXCEPT
                    !.target = receiverId, !.entry = journalEntryId]
           uid == auth.user.uid
           entryId == OrElse(journalEntryId, Null)
           outcome == SupportInsertOutcome(receiverId, entryId)
           row == [id |-> supportSeq, sender_id |-> uid, receiver_id |-> PgInt(receiverId),
                   journal_entry_id |-> IF entryId = Null THEN Null ELSE Num(PgInt(entryId)),
                   interaction_type |-> "support", created_at |-> Timestamp(now)]
       IN IF ~auth.next
          THEN /\ reqs' = [reqs EXCEPT ![r] = Refused("supportPostA", h, auth)]
               /\ UNCHANGED <<support, supportSeq>>
          ELSE IF Falsy(receiverId)
          THEN /\ reqs' = [reqs EXCEPT ![r] =
                      Done([s EXCEPT !.touched = FALSE],
                           Reply(400, "Receiver ID is required"))]
               /\ UNCHANGED <<support, supportSeq>>
          ELSE IF outcome = "22P02"
          THEN /\ reqs' = [reqs EXCEPT ![r] =
                      Thrown(s, outcome, Reply(500, "Internal server error"))]
               /\ UNCHANGED <<support, supportSeq>>
          ELSE /\ supportSeq <= MaxSupportId
               /\ supportSeq' = supportSeq + 1
               /\ IF outcome = "23503"
                  THEN /\ reqs' = [reqs EXCEPT ![r] =
                              Thrown(s, outcome, Reply(500, "Internal server error"))]
                       /\ UNCHANGED support
                  ELSE /\ support' = support \cup {row}
                       /\ reqs' = [reqs EXCEPT ![r] =
                              Done(s, ReplyUser(201, SupportColumns, NoToken, uid))]
    /\ UNCHANGED <<users, userSeq, journal, journalSeq, moods, moodSeq,
                   gratitude, gratitudeSeq, friends, friendSeq, tokens, now, boot>>

-----------------------------------------------------------------------------
(* The support specification: Sarah and Michael log in on A; they send     *)
(* support for a user and a journal entry, create and delete journal       *)
(* entries, record a gratitude entry and send a friend request, one        *)
(* request after the other.                                                *)

NextSupport ==
    \E r \in DOMAIN reqs :
        \/ \E e \in {Sarah, Michael} : LoginAQuery(r, e, SamplePassword)
        \/ LoginACompare(r)
        \/ \E h \in Sessions("A"), j \in {Undefined, Num(1)} :
               SupportPostA(r, h, Num(1), j)
        \/ \E h \in Sessions("A") :
               JournalPostA(r, h, Str("dear diary"), Undefined, Undefined)
        \/ \E h \in Sessions("A") : JournalDeleteA(r, h, Str("1"))
        \/ \E h \in Sessions("A") : GratitudePostA(r, h, Str("sunshine"), FirstOfJanuary)
        \/ \E h \in Sessions("A") : FriendRequestA(r, h, Num(3))

SpecSupport == InitSampleSerial /\ [][NextSupport]_vars

\* C18: a support interaction that is in the store is in the store, with
\* the same fields, after every step of an API operation (journal create
\* and delete, gratitude, friend request, support).
C18_SupportAppendOnly ==
    [][support \subseteq support']_vars

-----------------------------------------------------------------------------
(* Server A: POST /api/logout *)

\* a logout that would revoke the sessions on the server
LogoutARevoking(r, h) ==
    /\ Free(r)
    /\ reqs' = [reqs EXCEPT ![r] =
           Done([NewRequest("logoutA", Undefined, Undefined, Undefined) EXCEPT !.hdr = h],
                Reply(200, ""))]
    /\ tokens' = {i \in tokens : Bearer(i.tok) # h}
    /\ UNCHANGED <<storeVars, now, boot>>

\* res.json({ message: "Logout successful" }): no middleware, no query; h is
\* the header the client sends along
LogoutA(r, h) ==
    /\ Free(r)
    /\ reqs' = [reqs EXCEPT ![r] =
           Done([NewRequest("logoutA", Undefined, Undefined, Undefined) EXCEPT !.hdr = h],
                Reply(200, ""))]
    /\ UNCHANGED <<storeVars, tokens, now, boot>>

-----------------------------------------------------------------------------
(* The logout specification: one account registers on A; with two requests *)
(* in flight the client logs out and reads its profile, while the clock    *)
(* moves on to a moment later and to the instants around the end of the    *)
(* token's seven days.                                                     *)

LogoutTimePoints == {StartTime + 1} \cup TimePoints

NextLogout ==
    \/ \E t \in LogoutTimePoints : Advance(t)
    \/ \E r \in DOMAIN reqs :
        \/ RegisterAQuery(r, EmailA, GoodPassword, Str("Ann"))
        \/ RegisterAHash(r)
        \/ RegisterAInsert(r)
        \/ \E h \in Callers("A") : LogoutA(r, h)
        \/ \E h \in Sessions("A") : ProfileGetA(r, h)

SpecLogout == InitEmpty /\ [][NextLogout]_vars

\* slot q holds an answered logout sent with the token of the request of
\* slot r, and the request of slot r was processed later
LoggedOutBefore(q, r) ==
    /\ reqs[q].op = "logoutA" /\ reqs[q].pc = "done"
    /\ reqs[q].hdr = reqs[r].hdr
    /\ reqs[q].at < reqs[r].at

\* C19: a logout step leaves the store, the issued tokens and the clock as
\* they were, and a request to a protected route that carries a token whose
\* validity window is open is passed by the middleware although a logout
\* with that token was answered before.
C19_LogoutChangesNothing ==
    /\ [][\A r \in DOMAIN reqs :
              (reqs'[r] # reqs[r] /\ reqs'[r].op = "logoutA") =>
                  /\ UNCHANGED <<storeVars, tokens, now>>
                  /\ reqs'[r].resp.status = 200]_vars
    /\ [](\A q \in DOMAIN reqs : \A r \in DOMAIN reqs :
              (LoggedOutBefore(q, r) /\ Protected(reqs[r]) /\ Verifies(reqs[r])) =>
                  reqs[r].auth = "next")

\* a profile read is passed after a logout with the same token
C19_Witness ==
    \E q \in DOMAIN reqs : \E r \in DOMAIN reqs :
        /\ LoggedOutBefore(q, r)
        /\ reqs[r].op = "profileGetA" /\ reqs[r].pc = "done"
        /\ reqs[r].auth = "next" /\ reqs[r].resp.status = 200

-----------------------------------------------------------------------------
(* Server A: GET /api/stats *)

CountAll(tbl, uid) == Cardinality(tbl)

\* SELECT COUNT(*) as count FROM <table> WHERE user_id = $1
CountOwned(tbl, uid) == Cardinality({e \in tbl : e.user_id = uid})

\* Math.floor((today - joinDate) / (1000 * 60 * 60 * 24)) + 1
DaysActive(joinDate, t) ==
    (Today(t) - joinDate.day) - (IF t % MsPerDay < joinDate.ms THEN 1 ELSE 0) + 1

StatsA(r, h) ==
    /\ Free(r)
    /\ LET auth == AuthenticateTokenA(h, now)
           s == Passed("statsA", h, auth)
           uid == auth.user.uid
           rows == UsersById(uid)
       IN reqs' = [reqs EXCEPT ![r] =
           IF ~auth.next THEN Refused("statsA", h, auth)
           ELSE IF rows = {}
           THEN Thrown(s, "TypeError", Reply(500, "Internal server error"))
           ELSE Done([s EXCEPT !.stats =
                         [journalCount |-> CountOwned(journal, uid),
                          moodCount |-> CountOwned(moods, uid),
                          gratitudeCount |-> CountOwned(gratitude, uid),
                          daysActive |->
                              DaysActive((CHOOSE u \in rows : TRUE).join_date, now)]],
                     Reply(200, ""))]
    /\ UNCHANGED <<storeVars, tokens, now, boot>>

-----------------------------------------------------------------------------
(* The statistics specification: Sarah and Michael log in on A, create and *)
(* delete journal entries, record a mood and a gratitude entry and read    *)
(* their statistics, one request after the other.                          *)

NextStats ==
    \E r \in DOMAIN reqs :
        \/ \E e \in {Sarah, Michael} : LoginAQuery(r, e, SamplePassword)
        \/ LoginACompare(r)
        \/ \E h \in Sessions("A") :
               JournalPostA(r, h, Str("dear diary"), Undefined, Undefined)
        \/ \E h \in Sessions("A") : JournalDeleteA(r, h, Str("1"))
        \/ \E h \in Sessions("A") :
               MoodPostA(r, h, Str("tired"), Str("sleepy"), FirstOfJanuary)
        \/ MoodUpsertA(r)
        \/ \E h \in Sessions("A") : GratitudePostA(r, h, Str("sunshine"), FirstOfJanuary)
        \/ \E h \in Callers("A") : StatsA(r, h)

SpecStats == InitSampleSerial /\ [][NextStats]_vars

\* C20: the step that answers GET /api/stats leaves the store as it was, and
\* the journalCount, moodCount and gratitudeCount of the answer are the
\* numbers of journal, mood and gratitude rows whose user_id is the caller.
C20_StatsCountOwnRows ==
    [][\A r \in DOMAIN reqs :
           (reqs'[r] # reqs[r] /\ reqs'[r].op = "statsA") =>
               /\ UNCHANGED storeVars
               /\ reqs'[r].auth = "next" =>
                      LET uid == reqs'[r].user
                          st == reqs'[r].stats
                      IN /\ reqs'[r].resp.status = 200
                         /\ st.journalCount = Cardinality({e \in journal : e.user_id = uid})
                         /\ st.moodCount = Cardinality({e \in moods : e.user_id = uid})
                         /\ st.gratitudeCount =
                                Cardinality({e \in gratitude : e.user_id = uid})]_vars

\* statistics were answered for a caller who owns two journal entries and a
\* gratitude entry while other users own journal and mood rows
C20_Witness ==
    \E r \in DOMAIN reqs :
        /\ reqs[r].op = "statsA" /\ reqs[r].pc = "done" /\ reqs[r].resp.status = 200
        /\ reqs[r].stats.journalCount = 2 /\ reqs[r].stats.gratitudeCount = 1
        /\ reqs[r].stats.moodCount >= 1
        /\ \E e \in journal : e.user_id # reqs[r].user
        /\ \E e \in moods : e.user_id # reqs[r].user

-----------------------------------------------------------------------------
(* The days specification: one user registers on A at StartTime and reads  *)
(* the statistics while the clock moves on: later on the join day, to the  *)
(* first midnight, to 24 hours after joining and to the second midnight.   *)

DayPoints == {MsPerDay - 1, MsPerDay, MsPerDay + StartTime, MsPerDay + MsPerDay}

NextDays ==
    \/ \E t \in DayPoints : Advance(t)
    \/ \E r \in DOMAIN reqs :
        \/ RegisterAQuery(r, EmailA, GoodPassword, Str("Ann"))
        \/ RegisterAHash(r)
        \/ RegisterAInsert(r)
        \/ \E h \in Sessions("A") : StatsA(r, h)

SpecDays == InitEmptySerial /\ [][NextDays]_vars

\* C21: the daysActive of an answer of GET /api/stats is the number of
\* calendar days from the caller's join day to the day of the request, both
\* included: 1 on the join day, at least 1, and one more for every midnight
\* that has passed since joining.
C21_InclusiveCalendarDays ==
    \A r \in DOMAIN reqs :
        (reqs[r].op = "statsA" /\ reqs[r].pc = "done" /\ reqs[r].resp.status = 200) =>
            \A u \in UsersById(reqs[r].user) :
                reqs[r].stats.daysActive = Today(reqs[r].at) - u.join_date.day + 1

-----------------------------------------------------------------------------
(* Server A: the start of the process *)

\* the module has been loaded: pool.connect is waiting for the store, the
\* routes are registered and app.listen has been called
Loaded == [listening |-> FALSE, connect |-> "pending", init |-> "no", exited |-> FALSE]

\* the port is open; the callback of app.listen starts initDatabase()
BootListen ==
    /\ ~boot.exited /\ ~boot.listening
    /\ boot' = [boot EXCEPT !.listening = TRUE, !.init = "running"]
    /\ UNCHANGED <<storeVars, tokens, now, reqs>>

\* pool.connect calls back without an error: release()
BootConnected ==
    /\ ~boot.exited /\ boot.connect = "pending"
    /\ boot' = [boot EXCEPT !.connect = "ok"]
    /\ UNCHANGED <<storeVars, tokens, now, reqs>>

\* pool.connect calls back with an error: process.exit(1)
BootConnectFailed ==
    /\ ~boot.exited /\ boot.connect = "pending"
    /\ boot' = [boot EXCEPT !.connect = "failed", !.exited = TRUE]
    /\ UNCHANGED <<storeVars, tokens, now, reqs>>

\* initDatabase() has created the tables and returns
BootInitDone ==
    /\ ~boot.exited /\ boot.init = "running"
    /\ boot' = [boot EXCEPT !.init = "done"]
    /\ UNCHANGED <<storeVars, tokens, now, reqs>>

\* a query of initDatabase() fails, the error is thrown again and the
\* callback of app.listen calls process.exit(1)
BootInitFailed ==
    /\ ~boot.exited /\ boot.init = "running"
    /\ boot' = [boot EXCEPT !.init = "failed", !.exited = TRUE]
    /\ UNCHANGED <<storeVars, tokens, now, reqs>>

-----------------------------------------------------------------------------
(* The boot specification: the process starts on an empty store; clients   *)
(* send POST /api/logout, which needs no table, with two requests in       *)
(* flight, at any moment the port is open.                                 *)

InitBoot ==
    /\ EmptyStore
    /\ tokens = {}
    /\ now = StartTime
    /\ boot = Loaded
    /\ reqs = [r \in Slots |-> IdleSlot]

NextBoot ==
    \/ BootListen
    \/ BootConnected
    \/ BootConnectFailed
    \/ BootInitDone
    \/ BootInitFailed
    \/ \E t \in {StartTime + 1} : Advance(t)
    \/ \E r \in DOMAIN reqs, h \in {NoHeader, SchemeOnly, Bearer(Garbage)} : LogoutA(r, h)

SpecBoot == InitBoot /\ [][NextBoot]_vars

\* C22: a request is answered only when the connection test at the start
\* has succeeded and initDatabase has finished, so no request is answered
\* while either is still running or after either has failed.
C22_NoAnswerBeforeBooted ==
    [][\A r \in DOMAIN reqs :
           (reqs'[r] # reqs[r] /\ reqs'[r].pc = "done") =>
               boot.connect = "ok" /\ boot.init = "done"]_vars

-----------------------------------------------------------------------------
(* Server A: faults *)

\* express.json cannot parse the body: the error handling middleware answers
MalformedBodyA(r) ==
    /\ Free(r)
    /\ reqs' = [reqs EXCEPT ![r] =
           Thrown(NewRequest("malformedA", Undefined, Undefined, Undefined),
                  "SyntaxError", Reply(500, "Something went wrong!"))]
    /\ UNCHANGED <<storeVars, tokens, now, boot>>

\* the store cannot be reached when the handler of a new request runs its
\* first query: pool.query rejects and the catch block answers
StoreDownA(r, op, email, password, h) ==
    /\ Free(r)
    /\ LET auth == AuthenticateTokenA(h, now)
           catch == Reply(500, "Internal server error")
       IN reqs' = [reqs EXCEPT ![r] =
              IF op \in {"registerA", "loginA"}
              THEN IF Falsy(email) \/ Falsy(password)
                   THEN Done(NewRequest(op, email, password, Undefined),
                             Reply(400, "Email and password are required"))
                   ELSE Thrown(NewRequest(op, email, password, Undefined),
                               "ECONNREFUSED", catch)
              ELSE IF ~auth.next THEN Refused(op, h, auth)
              ELSE Thrown(Passed(op, h, auth), "ECONNREFUSED", catch)]
    /\ UNCHANGED <<storeVars, tokens, now, boot>>

\* the store cannot be reached when register runs its INSERT
RegisterAInsertDown(r) ==
    /\ reqs[r].op = "registerA" /\ reqs[r].pc = "insert"
    /\ reqs' = [reqs EXCEPT ![r] =
           Thrown(reqs[r], "ECONNREFUSED", RegisterACatch("ECONNREFUSED"))]
    /\ UNCHANGED <<storeVars, tokens, now, boot>>

-----------------------------------------------------------------------------
(* The answers specification: with two requests in flight, clients         *)
(* register one email, log in, create journal entries, send a friend       *)
(* request to a user that does not exist and send a body that cannot be    *)
(* parsed, while the store may refuse any query.  A handler that waits for *)
(* bcrypt or for the store goes on once that has answered.                 *)

NextAnswers ==
    \E r \in DOMAIN reqs :
        \/ \E p \in {Undefined, GoodPassword} : RegisterAQuery(r, EmailA, p, Undefined)
        \/ RegisterAHash(r)
        \/ RegisterAInsert(r)
        \/ RegisterAInsertDown(r)
        \/ \E p \in {Num(1), GoodPassword} : LoginAQuery(r, EmailA, p)
        \/ LoginACompare(r)
        \/ \E h \in Callers("A") :
               JournalPostA(r, h, Str("dear diary"), Undefined, Undefined)
        \/ \E h \in Sessions("A") : FriendRequestA(r, h, Num(2))
        \/ MalformedBodyA(r)
        \/ \E op \in {"loginA", "journalPostA"}, h \in Callers("A") :
               StoreDownA(r, op, EmailA, GoodPassword, h)

FairAnswers ==
    \A r \in Slots :
        /\ WF_vars(RegisterAHash(r))
        /\ WF_vars(RegisterAInsert(r))
        /\ WF_vars(LoginACompare(r))

SpecAnswers == InitEmpty /\ [][NextAnswers]_vars /\ FairAnswers

\* the handler of slot r is waiting for bcrypt or for the store
InFlight(r) == reqs[r].pc \notin {"idle", "done"}

ErrorStatuses == {400, 401, 403, 404, 500}

\* the answer in slot s is a success, or an error status with a message
WellFormed(s) ==
    \/ s.resp.status \in {200, 201} /\ s.resp.error = ""
    \/ s.resp.status \in ErrorStatuses /\ s.resp.error # ""

\* C23: every request is answered exactly once: a request whose handler is
\* waiting is answered in the end, a request is never answered twice, and
\* every answer, after a fault too (a violated constraint, a store that
\* cannot be reached, a body that cannot be parsed), is well formed.
C23_ExactlyOneResponse ==
    /\ [](\A r \in DOMAIN reqs :
             /\ reqs[r].sent <= 1
             /\ (reqs[r].op # "none" /\ ~InFlight(r)) =>
                    reqs[r].pc = "done" /\ reqs[r].sent = 1 /\ WellFormed(reqs[r])
             /\ InFlight(r) => reqs[r].sent = 0)
    /\ \A r \in Slots : InFlight(r) ~> reqs[r].pc = "done"

\* a register that lost the race, a request whose query was refused and a
\* request for a user that does not exist have been answered
C23_Witness ==
    \E q \in DOMAIN reqs : \E r \in DOMAIN reqs :
        /\ reqs[q].pc = "done" /\ reqs[q].thrown = "23505" /\ reqs[q].sent = 1
        /\ reqs[r].pc = "done" /\ reqs[r].thrown = "ECONNREFUSED" /\ reqs[r].sent = 1

-----------------------------------------------------------------------------
(* The account specification: one user registers on A with a long          *)
(* password; clients log in with that password, with a password that       *)
(* differs from it in its last character only, and with a short wrong one; *)
(* the user updates the profile and creates and deletes journal entries    *)
(* with the tokens, one request after the other.                           *)

\* 72 characters
SeventyTwo == "0123456789abcdefghijklmnopqrstuvwxyz0123456789abcdefghijklmnopqrstuvwxyz"

AccountPassword == Str(SeventyTwo \o "A")

AlmostPassword == Str(SeventyTwo \o "B")

WrongPassword == Str("wrong12")

NextAccount ==
    \E r \in DOMAIN reqs :
        \/ RegisterAQuery(r, EmailA, AccountPassword, Str("Ann"))
        \/ RegisterAHash(r)
        \/ RegisterAInsert(r)
        \/ \E p \in {AccountPassword, AlmostPassword, WrongPassword} :
               LoginAQuery(r, EmailA, p)
        \/ LoginACompare(r)
        \/ \E h \in Sessions("A") :
               ProfilePutA(r, h, Str("Ann B"), Num(30), Str("female"), Undefined)
        \/ \E h \in Sessions("A") :
               JournalPostA(r, h, Str("dear diary"), Undefined, Undefined)
        \/ \E h \in Sessions("A") : JournalDeleteA(r, h, Str("1"))

SpecAccount == InitEmptySerial /\ [][NextAccount]_vars

\* C24: once the registration has succeeded, a login for the registered
\* email succeeds exactly when its password is the registered password; the
\* tokens of register and of login carry the id of the created user, and
\* the rows created with them have that id as their owner.
C24_LoginIffSamePassword ==
    /\ \A r \in DOMAIN reqs :
           (reqs[r].op = "loginA" /\ reqs[r].pc = "done"
                /\ UsersByEmail(PgParam(reqs[r].email)) # {}) =>
               /\ reqs[r].resp.status = 200 <=> reqs[r].password = AccountPassword
               /\ reqs[r].resp.status = 200 =>
                      \A u \in UsersByEmail(PgParam(reqs[r].email)) :
                          reqs[r].resp.token.uid = u.id
    /\ \A i \in tokens : \E u \in users : i.tok.uid = u.id /\ i.tok.email = u.email
    /\ \A e \in journal : \E u \in users : e.user_id = u.id

-----------------------------------------------------------------------------
(* Server A: GET /api/journal *)

\* the columns of a journal row that the claims look at, with user_name
JournalRows(sorted) ==
    [i \in 1..Len(sorted) |->
        [id |-> sorted[i].id, user_id |-> sorted[i].user_id,
         is_public |-> sorted[i].is_public, created_at |-> sorted[i].created_at,
         user_name |-> (CHOOSE u \in UsersById(sorted[i].user_id) : TRUE).name]]

OwnJournalAnyOwner(uid) == {e \in journal : UsersById(e.user_id) # {}}

\* FROM journal_entries je JOIN users u ON je.user_id = u.id WHERE je.user_id = $1
OwnJournal(uid) == {e \in journal : e.user_id = uid /\ UsersById(e.user_id) # {}}

\* SELECT je.*, u.name as user_name ... ORDER BY je.created_at DESC
JournalGetA(r, h, tie) ==
    /\ Free(r)
    /\ LET auth == AuthenticateTokenA(h, now)
       IN reqs' = [reqs EXCEPT ![r] =
              IF ~auth.next
              THEN Refused("journalGetA", h, auth)
              ELSE Done([Passed("journalGetA", h, auth) EXCEPT
                            !.rows = JournalRows(
                                OrderByCreatedDesc(OwnJournal(auth.user.uid), tie))],
                        Reply(200, ""))]
    /\ UNCHANGED <<storeVars, tokens, now, boot>>

-----------------------------------------------------------------------------
(* The privacy specification: Sarah and Michael log in on A, create a      *)
(* private or a public journal entry, delete an entry, and the own entries *)
(* and the public listing are read, with and without a token, one request  *)
(* after the other.                                                        *)

NextPrivacy ==
    \E r \in DOMAIN reqs :
        \/ \E e \in {Sarah, Michael} : LoginAQuery(r, e, SamplePassword)
        \/ LoginACompare(r)
        \/ \E h \in Sessions("A"), p \in {Undefined, Bool(FALSE), Bool(TRUE)} :
               JournalPostA(r, h, Str("dear diary"), Undefined, p)
        \/ \E h \in Sessions("A") : JournalDeleteA(r, h, Str("1"))
        \/ \E h \in Callers("A") : JournalGetA(r, h, "up")
        \/ JournalPublicA(r, "up")

SpecPrivacy == InitSampleSerial /\ [][NextPrivacy]_vars

\* the ids of the rows of an answer
RowIds(rows) == {rows[i].id : i \in 1..Len(rows)}

JournalReads == {"journalGetA", "journalPublicA"}

\* C25: the answer of GET /api/journal has exactly the entries the caller
\* owns; an entry that is not public is in no answer sent to another user or
\* to a caller without a token, and the entry that POST /api/journal sends
\* back is owned by its caller and is private unless isPublic was supplied.
C25_PrivateStaysPrivate ==
    /\ [](\A r \in DOMAIN reqs :
             (reqs[r].op \in JournalReads /\ reqs[r].pc = "done") =>
                 /\ \A i \in 1..Len(reqs[r].rows) :
                        ~reqs[r].rows[i].is_public =>
                            /\ reqs[r].auth = "next"
                            /\ reqs[r].rows[i].user_id = reqs[r].user
                 /\ reqs[r].auth # "next" /\ reqs[r].op = "journalGetA" =>
                        reqs[r].rows = <<>>)
    /\ [][\A r \in DOMAIN reqs :
              /\ Answers(r, {"journalGetA"}) =>
                     /\ RowIds(reqs'[r].rows) =
                            {e.id : e \in {f \in journal : f.user_id = reqs'[r].user}}
                     /\ Len(reqs'[r].rows) = Cardinality(RowIds(reqs'[r].rows))
              /\ (Answers(r, {"journalPostA"}) /\ reqs'[r].resp.status = 201) =>
                     \A e \in journal' \ journal :
                         /\ e.user_id = reqs'[r].user
                         /\ Falsy(reqs'[r].isPublic) => ~e.is_public]_vars

\* Michael's entries were read while Sarah owns a private entry
C25_Witness ==
    \E r \in DOMAIN reqs :
        /\ reqs[r].op = "journalGetA" /\ reqs[r].pc = "done" /\ reqs[r].auth = "next"
        /\ reqs[r].rows # <<>>
        /\ \E e \in journal : ~e.is_public /\ e.user_id # reqs[r].user

-----------------------------------------------------------------------------
(* Server A: POST /api/journal when the store is lost between its queries *)

\* the INSERT INTO journal_entries has been carried out; the SELECT name FROM
\* users that follows is rejected (the store cannot be reached any more) and
\* the catch block answers
JournalPostASelectDown(r, h, content, category, isPublic) ==
    /\ Free(r)
    /\ LET auth == AuthenticateTokenA(h, now)
           s == [Passed("journalPostA", h, auth) EXCEPT
                    !.content = content, !.isPublic = isPublic]
           uid == auth.user.uid
           row == [id |-> journalSeq, user_id |-> uid, content |-> Trim(content.s),
                   category |-> OrElse(category, Null),
                   is_public |-> ~Falsy(OrElse(isPublic, Bool(FALSE))),
                   created_at |-> Timestamp(now)]
       IN /\ auth.next
          /\ ~Falsy(content) /\ content.t = "string" /\ Trim(content.s) # ""
          /\ UsersById(uid) # {}
          /\ journalSeq <= MaxJournalId
          /\ journal' = journal \cup {row}
          /\ journalSeq' = journalSeq + 1
          /\ reqs' = [reqs EXCEPT ![r] =
                 Thrown(s, "ECONNREFUSED", Reply(500, "Internal server error"))]
    /\ UNCHANGED <<users, userSeq, moods, moodSeq, gratitude, gratitudeSeq,
                   friends, friendSeq, support, supportSeq, tokens, now, boot>>

-----------------------------------------------------------------------------
(* The errors specification: Sarah logs in on A; requests with missing     *)
(* fields, with ids of users that do not exist, with an email that is      *)
(* taken, without a token, and requests served while the store drops out   *)
(* are sent along with good ones, one request after the other.             *)

NextErrors ==
    \E r \in DOMAIN reqs :
        \/ LoginAQuery(r, Sarah, SamplePassword)
        \/ LoginACompare(r)
        \/ \E p \in {Undefined, ShortPassword, GoodPassword} :
               RegisterAQuery(r, Sarah, p, Undefined)
        \/ \E h \in Callers("A"), c \in {Undefined, Str(" "), Str("dear diary")} :
               JournalPostA(r, h, c, Undefined, Undefined)
        \/ \E h \in Sessions("A") :
               JournalPostASelectDown(r, h, Str("dear diary"), Undefined, Undefined)
        \/ \E h \in Callers("A"), t \in {Undefined, Num(1), Num(2), Num(9)} :
               FriendRequestA(r, h, t)
        \/ \E h \in Callers("A"), t \in {Undefined, Num(2), Num(9)} :
               SupportPostA(r, h, t, Undefined)

SpecErrors == InitSampleSerial /\ [][NextErrors]_vars

\* C26: the step that answers a request with 400, 401, 403, 404 or 500
\* leaves the tables users, journal_entries, mood_entries,
\* gratitude_entries, friend_requests and support_interactions as they were
\* before the request.
C26_ErrorsChangeNothing ==
    [][\A r \in DOMAIN reqs :
           (reqs'[r] # reqs[r] /\ reqs'[r].pc = "done"
                /\ reqs'[r].resp.status \in ErrorStatuses) =>
               UNCHANGED <<users, journal, moods, gratitude, friends, support>>]_vars

-----------------------------------------------------------------------------
(* The diary specification  : Sarah and Michael log in on A, create public *)
(* and private entries, delete entries, change their profile, and the      *)
(* private and the public listing are read.                                *)

NextDiary ==
    \E r \in DOMAIN reqs :
        \/ \E e \in {Sarah, Michael} : LoginAQuery(r, e, SamplePassword)
        \/ LoginACompare(r)
        \/ \E h \in Sessions("A"), p \in {Undefined, Bool(TRUE)},
              c \in {Undefined, Str("gratitude")} :
               JournalPostA(r, h, Str("dear diary"), c, p)
        \/ \E h \in Sessions("A"), id \in {Str("1"), Str("2"), Str("4")} :
               JournalDeleteA(r, h, id)
        \/ \E h \in Sessions("A") :
               ProfilePutA(r, h, Str("Renamed"), Undefined, Undefined, Undefined)
        \/ \E h \in Sessions("A") : JournalGetA(r, h, "up")
        \/ JournalPublicA(r, "up")

SpecDiary == InitSampleSerial /\ [][NextDiary]_vars

\* C27: between its creation and its deletion a journal entry keeps its
\* content, category, is_public flag and owner through every step, the id of
\* an entry is never given to another entry, and the public listing has only
\* entries stored with is_public = true, so an entry created private is in
\* no public listing.
C27_EntriesImmutable ==
    /\ [](\A e \in journal : e.id < journalSeq)
    /\ [][/\ \A e \in journal, f \in journal' : f.id = e.id => f = e
          /\ \A f \in journal' \ journal : f.id >= journalSeq
          /\ \A r \in DOMAIN reqs :
                 (reqs'[r] # reqs[r] /\ reqs'[r].op = "journalPublicA"
                      /\ reqs'[r].pc = "done") =>
                     \A i \in 1..Len(reqs'[r].rows) :
                         \E e \in journal :
                             /\ e.id = reqs'[r].rows[i].id
                             /\ e.user_id = reqs'[r].rows[i].user_id
                             /\ e.is_public]_vars

\* the public listing was read while an entry created private through the
\* API is stored and an entry has been deleted
C27_Witness ==
    \E r \in DOMAIN reqs :
        /\ reqs[r].op = "journalPublicA" /\ reqs[r].pc = "done"
        /\ Len(reqs[r].rows) > 0
        /\ \E e \in journal : ~e.is_public /\ e.id > Cardinality(SampleJournal)
        /\ \E i \in 1..(journalSeq - 1) : \A e \in journal : e.id # i

-----------------------------------------------------------------------------
(* Server C: GET /api/users, GET /api/friends, GET /api/stats *)

\* the columns id, name, created_at of a set of users, in the order of
\* ORDER BY created_at DESC (tie: the order of rows the statement leaves open)
UserRows(S, tie) ==
    OrderByCreatedDesc({[id |-> u.id, name |-> u.name, created_at |-> u.join_date] :
                           u \in S}, tie)

\* SELECT ... FROM users WHERE id != $1 AND profile_complete = true
UsersList(uid, tie) ==
    UserRows({u \in users : u.id # uid /\ u.profile_complete}, tie)

UsersListC(r, h, tie) ==
    /\ Free(r)
    /\ LET auth == AuthenticateTokenC(h, now)
       IN reqs' = [reqs EXCEPT ![r] =
              IF ~auth.next THEN Refused("usersListC", h, auth)
              ELSE Done([Passed("usersListC", h, auth) EXCEPT
                            !.rows = UsersList(auth.user.uid, tie)],
                        Reply(200, ""))]
    /\ UNCHANGED <<storeVars, tokens, now, boot>>

\* a join that reads the requests the caller received only
FriendJoinReceived(f, u, uid) ==
    f.requester_id = u.id /\ f.requested_id = uid

\* fr.requester_id = u.id AND fr.requested_id = $1, or
\* fr.requested_id = u.id AND fr.requester_id = $1
FriendJoin(f, u, uid) ==
    \/ f.requester_id = u.id /\ f.requested_id = uid
    \/ f.requested_id = u.id /\ f.requester_id = uid

\* SELECT DISTINCT u.id, ... FROM users u JOIN friend_requests fr ON (...)
\* WHERE fr.status = 'accepted' AND u.id != $1
FriendsList(uid, tie) ==
    UserRows({u \in users :
                 /\ \E f \in friends : FriendJoin(f, u, uid) /\ f.status = "accepted"
                 /\ u.id # uid}, tie)

FriendsGetC(r, h, tie) ==
    /\ Free(r)
    /\ LET auth == AuthenticateTokenC(h, now)
       IN reqs' = [reqs EXCEPT ![r] =
              IF ~auth.next THEN Refused("friendsGetC", h, auth)
              ELSE Done([Passed("friendsGetC", h, auth) EXCEPT
                            !.rows = FriendsList(auth.user.uid, tie)],
                        Reply(200, ""))]
    /\ UNCHANGED <<storeVars, tokens, now, boot>>

\* SELECT COUNT(*) FROM users WHERE profile_complete = true, minus 1
TotalUsers == Cardinality({u \in users : u.profile_complete}) - 1

\* SELECT COUNT(*) FROM friend_requests WHERE requester_id = $1
FriendRequestsSent(uid) == Cardinality({f \in friends : f.requester_id = uid})

\* SELECT COUNT(*) FROM friend_requests
\* WHERE (requester_id = $1 OR requested_id = $1) AND status = 'accepted'
Connections(uid) ==
    Cardinality({f \in friends :
                    /\ f.requester_id = uid \/ f.requested_id = uid
                    /\ f.status = "accepted"})

StatsC(r, h) ==
    /\ Free(r)
    /\ LET auth == AuthenticateTokenC(h, now)
           uid == auth.user.uid
       IN reqs' = [reqs EXCEPT ![r] =
              IF ~auth.next THEN Refused("statsC", h, auth)
              ELSE Done([Passed("statsC", h, auth) EXCEPT !.counts =
                            [totalUsers |-> TotalUsers,
                             friendRequests |-> FriendRequestsSent(uid),
                             connections |-> Connections(uid),
                             journalEntries |-> CountOwned(journal, uid)]],
                        Reply(200, ""))]
    /\ UNCHANGED <<storeVars, tokens, now, boot>>

-----------------------------------------------------------------------------
(* The friendships specification: Sarah and Michael log in on C, send      *)
(* friend requests to each other (and to themselves, the id as a string),  *)
(* accept or reject them, and read their friends and their statistics.     *)

NextFriendships ==
    \E r \in DOMAIN reqs :
        \/ \E e \in {Sarah, Michael} : LoginCQuery(r, e, SamplePassword)
        \/ LoginCCompare(r)
        \/ \E h \in Sessions("C"), t \in {Num(1), Num(2), Str("1")} :
               FriendRequestCQuery(r, h, t)
        \/ FriendRequestCInsert(r)
        \/ \E h \in Sessions("C"), id \in {Str("1"), Str("2")},
              st \in {Str("accepted"), Str("rejected")} :
               FriendRespondC(r, h, id, st)
        \/ \E h \in Callers("C") : FriendsGetC(r, h, "up")
        \/ \E h \in Callers("C") : StatsC(r, h)

SpecFriendships == InitSampleSerial /\ [][NextFriendships]_vars

\* the ids of the users GET /api/friends lists for user a
FriendIds(a) == RowIds(FriendsList(a, "up"))

\* an accepted request from a to b or from b to a is stored
AcceptedBetween(a, b) ==
    \E f \in friends :
        /\ f.status = "accepted"
        /\ \/ f.requester_id = a /\ f.requested_id = b
           \/ f.requester_id = b /\ f.requested_id = a

\* C28: in every state, user b is in the friends list of user a exactly when
\* a is in the friends list of b, and exactly when an accepted request
\* between the two is stored in either direction; no user is in their own
\* list; and the answer of GET /friends has these users, each once.
C28_FriendsSymmetric ==
    /\ [](\A u \in users, v \in users :
             /\ v.id \in FriendIds(u.id) <=> u.id \in FriendIds(v.id)
             /\ v.id \in FriendIds(u.id) <=> (u.id # v.id /\ AcceptedBetween(u.id, v.id))
             /\ u.id \notin FriendIds(u.id))
    /\ [][\A r \in DOMAIN reqs :
              Answers(r, {"friendsGetC"}) =>
                  /\ RowIds(reqs'[r].rows) =
                         {u.id : u \in {v \in users :
                             v.id # reqs'[r].user /\ AcceptedBetween(v.id, reqs'[r].user)}}
                  /\ Len(reqs'[r].rows) = Cardinality(RowIds(reqs'[r].rows))]_vars

\* a user read a friends list that is not empty while a request of a user
\* to themselves is stored as accepted
C28_Witness ==
    /\ \E r \in DOMAIN reqs :
           /\ reqs[r].op = "friendsGetC" /\ reqs[r].pc = "done"
           /\ Len(reqs[r].rows) > 0
    /\ \E f \in friends : f.requester_id = f.requested_id /\ f.status = "accepted"

\* C29: the connections count that GET /stats answers is the number of
\* users GET /friends lists for the same caller in the same state.
C29_ConnectionsAreFriends ==
    [][\A r \in DOMAIN reqs :
           Answers(r, {"statsC"}) =>
               reqs'[r].counts.connections = Cardinality(FriendIds(reqs'[r].user))]_vars

-----------------------------------------------------------------------------
(* The directory specification: two users register on C, one completes the *)
(* profile, and both read the user list and their statistics.              *)

NextDirectory ==
    \E r \in DOMAIN reqs :
        \/ \E e \in {EmailA, EmailB} : RegisterCQuery(r, e, GoodPassword, Str("Ann"))
        \/ RegisterCHash(r)
        \/ RegisterCInsert(r)
        \/ \E h \in Sessions("C") :
               ProfilePutC(r, h, Str("Ann"), Num(30), Str("female"), Undefined)
        \/ \E h \in Callers("C") : UsersListC(r, h, "up")
        \/ \E h \in Callers("C") : StatsC(r, h)

SpecDirectory == InitEmptySerial /\ [][NextDirectory]_vars

\* C30: GET /users lists neither the caller nor a user whose
\* profile_complete is false, and totalUsers of GET /stats is the number of
\* users GET /users returns for the same caller in the same state, which is
\* never negative.
C30_TotalUsersIsDirectory ==
    [][\A r \in DOMAIN reqs :
           /\ Answers(r, {"usersListC"}) =>
                  \A i \in 1..Len(reqs'[r].rows) :
                      /\ reqs'[r].rows[i].id # reqs'[r].user
                      /\ \E u \in users : u.id = reqs'[r].rows[i].id /\ u.profile_complete
           /\ Answers(r, {"statsC"}) =>
                  /\ reqs'[r].counts.totalUsers = Len(UsersList(reqs'[r].user, "up"))
                  /\ reqs'[r].counts.totalUsers >= 0]_vars

=============================================================================
